---------------------------- MODULE Spec2Model ----------------------------
(***************************************************************************)
(* A model of the Battleship game service of src/project: the packet codec *)
(* (protocol.py), the per-connection session and its reader                *)
(* (battleship.py ClientSession, server.py handle_client.message_handler), *)
(* the match orchestrator (battleship.py run_two_player_game) and the      *)
(* registry of players, spectators and disconnected snapshots (server.py). *)
(*                                                                         *)
(* The module holds several specifications over one set of variables; a    *)
(* specification moves the variables of its own part and leaves the others *)
(* at their idle values.                                                   *)
(*                                                                         *)
(* protocol.Packet takes the keyword seq_num and has the attribute         *)
(* seq_num, and PacketType has no member CHAT; battleship.py and server.py *)
(* use the keyword and attribute sequence_number and PacketType.CHAT. So   *)
(* every ClientSession.send raises TypeError before a frame is written,    *)
(* ClientSession.recv returns None, and message_handler stops at its first *)
(* frame. The parts model the code with these outcomes. The functions that *)
(* lie behind them (message_handler, handle_turn, place_ships_manually,    *)
(* broadcast_to_spectators, broadcast_message, game_session) are modelled  *)
(* as they run when they are started on their own, on the arguments and    *)
(* globals their callers build: those are the initial states of a part.    *)
(***************************************************************************)
EXTENDS Integers, Sequences, FiniteSets, TLC

VARIABLES
    \* ---- codec part (protocol.py) ----
    c_pc,       \* "input" | "packed" | "unpacked"
    c_in,       \* the (seq_num, ptype, data) handed to Packet(...)
    c_wire,     \* the bytes produced by Packet.pack
    c_out,      \* the result of Packet.unpack on c_wire
    \* ---- session part (ClientSession, handle_client, message_handler) ----
    s_conn,     \* per connection: "accepted" | "open" | "closed" (by the peer) | "shut" (by the server)
    s_clientSeq,\* ClientSession.client_seq
    s_serverSeq,\* ClientSession.server_seq
    s_lock,     \* ClientSession.lock: the thread holding it, or "none"
    s_queue,    \* ClientSession.recv_buffer
    s_wire,     \* the frames written to the connection, in the order written
    s_reader,   \* message_handler thread: "unstarted" | "running" | "stopped"
    s_thr,      \* per sending thread: where it is inside ClientSession.send
    s_hist,     \* history: frames read, last peer sequence number, puts after a failure, calls of Packet
    \* ---- match part (run_two_player_game and its inner functions) ----
    t_in,       \* the function of the match that is called, and its arguments
    t_board,    \* board1, board2 of run_two_player_game, by player number
    t_current,  \* current_player
    t_pc,       \* the match thread: "called" | "turn" | "wait" | "placing" | "returned" | "raised"
    t_thr,      \* the read_input thread of the turn, with the Events and user_input of its iteration
    t_queue,    \* recv_buffer of the two players' sessions
    t_conn,     \* connection of players 1, 2 and spectators 3, 4: "open" | "closed"
    t_seq,      \* server_seq of the four sessions
    t_now,      \* seconds since input_received.wait(30) was entered
    t_sent,     \* the lines written to the connections, in order
    t_out,      \* how the called function ended: the value returned or the exception
    t_cast,     \* broadcast_to_spectators: the place in spectators its loop is at
    \* ---- registry part (server.py handle_client, game_session) ----
    r_in,       \* the globals and buffers game_session and handle_client start from
    r_now,      \* time.time(), in seconds
    r_conn,     \* per connection: socket state, username, the branch handle_client took
    r_active,   \* active_players
    r_spectators,\* spectators
    r_player_sessions,\* player_sessions: username -> connection, 0 when absent
    r_disconnected,\* disconnected: username -> snapshot
    r_order,    \* the usernames that have an entry in disconnected, in the order of insertion
    r_queue,    \* recv_buffer of the sessions
    r_games,    \* the game_session threads
    r_hist,     \* history: the spectators taken off the queue by a teardown, and how many were taken when the last client joined and whether a teardown held players_lock then
    \* ---- board part (the Board class on its own) ----
    f_board,    \* the Board
    f_fired,    \* history: the cells fire_at has been called on since __init__ or reset built the board
    f_call,     \* the placing method under way: the ship its loop is at, the draws or answers to come
    f_lays,     \* history: the calls of reset, of the placing methods and of do_place_ship
    f_last,     \* history: the latest call when it was fire_at: cell, result, the board before and after it
    \* ---- locks part (players_lock and sessions_lock of server.py) ----
    k_in,       \* what the threads start from: the first frame of the joining client, whether its username has a snapshot
    k_thr,      \* per thread: its place, the lock operations ahead of it
    k_players_lock,\* players_lock: the thread holding it, or "none"
    k_sessions_lock \* sessions_lock: the thread holding it, or "none"

codecVars == <<c_pc, c_in, c_wire, c_out>>

sessVars == <<s_conn, s_clientSeq, s_serverSeq, s_lock, s_queue, s_wire, s_reader,
                s_thr, s_hist>>

turnVars == <<t_in, t_board, t_current, t_pc, t_thr, t_queue, t_conn, t_seq, t_now,
                t_sent, t_out, t_cast>>

regVars == <<r_in, r_now, r_conn, r_active, r_spectators, r_player_sessions,
               r_disconnected, r_order, r_queue, r_games, r_hist>>

fireVars == <<f_board, f_fired, f_call, f_lays, f_last>>

lockVars == <<k_in, k_thr, k_players_lock, k_sessions_lock>>

\* What the actions of a part leave alone: the variables of the other parts.
codecOthers == <<sessVars, turnVars, regVars, fireVars, lockVars>>

sessOthers == <<codecVars, turnVars, regVars, fireVars, lockVars>>

turnOthers == <<codecVars, sessVars, regVars, fireVars, lockVars>>

regOthers == <<codecVars, sessVars, turnVars, fireVars, lockVars>>

fireOthers == <<codecVars, sessVars, turnVars, regVars, lockVars>>

lockOthers == <<codecVars, sessVars, turnVars, regVars, fireVars>>

vars == <<c_pc, c_in, c_wire, c_out, s_conn, s_clientSeq, s_serverSeq, s_lock,
          s_queue, s_wire, s_reader, s_thr, s_hist, t_in, t_board, t_current,
          t_pc, t_thr, t_queue, t_conn, t_seq, t_now, t_sent, t_out, t_cast,
          r_in, r_now, r_conn, r_active, r_spectators, r_player_sessions,
          r_disconnected, r_order, r_queue, r_games, r_hist, f_board, f_fired,
          f_call, f_lays, f_last, k_in, k_thr, k_players_lock, k_sessions_lock>>

(***************************************************************************)
(*                        PART 1.  Packet codec                            *)
(***************************************************************************)

\* Longest payload of the codec inputs.
MaxPayloadLen == 2

\* Packet.HEADER_SIZE
HEADER_SIZE == 11

\* class PacketType(IntEnum): DATA = 0, ACK = 1, NACK = 2, ERROR = 3
PacketType == {0, 1, 2, 3}

Byte == 0..255

\* Payload bytes of the inputs: NUL, a letter, the largest byte.
PayloadBytes == {0, 65, 255}

\* Sequence numbers of the inputs: every byte of the 4-byte field gets a
\* non-zero value in some input (2147483647 = 0x7FFFFFFF).
SeqInputs == {0, 1, 258, 65536, 16909060, 2147483647}

RECURSIVE SeqsUpTo(_, _)
SeqsUpTo(S, n) ==
    IF n = 0 THEN {<<>>}
    ELSE LET shorter == SeqsUpTo(S, n - 1)
         IN  shorter \cup {Append(s, x) : s \in {t \in shorter : Len(t) = n - 1}, x \in S}

\* struct.pack("!I", n): 4 bytes, most significant first.
U32BE(n) == << (n \div 16777216) % 256, (n \div 65536) % 256,
               (n \div 256) % 256, n % 256 >>

\* struct.pack("!H", n): 2 bytes, most significant first.
U16BE(n) == << (n \div 256) % 256, n % 256 >>

\* struct.unpack of a big-endian unsigned field. A 4-byte value of 2^31 or
\* more is held as the value minus 2^32 (the model's integers are 32-bit
\* signed); U32BE gives back its bytes, and distinct values stay distinct.
RECURSIVE FromBE(_)
FromBE(field) ==
    IF field = <<>> THEN 0
    ELSE IF Len(field) = 4 /\ field[1] >= 128
    THEN ((field[1] - 256) * 16777216) + FromBE(Tail(field))
    ELSE (256 * FromBE(SubSeq(field, 1, Len(field) - 1))) + field[Len(field)]

\* ---- binascii.crc32: CRC-32 (reflected, polynomial 0xEDB88320), the
\* 32-bit register held as its two 16-bit halves <<high, low>>. ----
CrcPolyHigh == 60856    \* 0xEDB8

CrcPolyLow == 33568     \* 0x8320

RECURSIVE BitXor(_, _)
BitXor(a, b) ==
    IF a = 0 THEN b
    ELSE IF b = 0 THEN a
    ELSE ((a + b) % 2) + (2 * BitXor(a \div 2, b \div 2))

CrcStep(c) ==
    LET hi == c[1] \div 2
        lo == (c[2] \div 2) + ((c[1] % 2) * 32768)
    IN  IF c[2] % 2 = 1
        THEN <<BitXor(hi, CrcPolyHigh), BitXor(lo, CrcPolyLow)>>
        ELSE <<hi, lo>>

\* The byte table of the algorithm: entry n is n taken through 8 steps.
CrcTable ==
    [n \in 0..255 |->
        CrcStep(CrcStep(CrcStep(CrcStep(CrcStep(CrcStep(CrcStep(CrcStep(<<0, n>>))))))))]

\* crc = (crc >> 8) ^ table[(crc ^ b) & 0xFF]
CrcByte(c, b) ==
    LET t == CrcTable[BitXor(c[2] % 256, b)]
    IN  <<BitXor(c[1] \div 256, t[1]),
          BitXor((c[2] \div 256) + ((c[1] % 256) * 256), t[2])>>

RECURSIVE CrcBytes(_, _)
CrcBytes(c, bs) ==
    IF bs = <<>> THEN c ELSE CrcBytes(CrcByte(c, Head(bs)), Tail(bs))

\* crc32(bs).to_bytes(4, byteorder='big')
Crc32Bytes(bs) ==
    LET c == CrcBytes(<<65535, 65535>>, bs)
        hi == 65535 - c[1]
        lo == 65535 - c[2]
    IN  << hi \div 256, hi % 256, lo \div 256, lo % 256 >>

\* Packet._calculate_checksum: CRC over "!IBH" header fields and the data.
CalculateChecksum(seq_num, ptype, data) ==
    Crc32Bytes(U32BE(seq_num) \o <<ptype>> \o U16BE(Len(data)) \o data)

\* Packet.__init__
Packet(seq_num, ptype, data) ==
    [seq_num |-> seq_num, ptype |-> ptype, data |-> data,
     checksum |-> CalculateChecksum(seq_num, ptype, data)]

\* Packet.pack with the length field written least significant byte first.
PackLittleEndianLen(p) ==
    U32BE(p.seq_num) \o <<p.ptype>> \o <<Len(p.data) % 256, (Len(p.data) \div 256) % 256>>
        \o p.checksum \o p.data

\* Packet.pack: struct.pack("!IBH4s", seq_num, ptype, len(data), checksum) + data
Pack(p) ==
    U32BE(p.seq_num) \o <<p.ptype>> \o U16BE(Len(p.data)) \o p.checksum \o p.data

\* Packet.validate that accepts any checksum.
ValidateAnything(p) == p.checksum = p.checksum

\* Packet.validate
Validate(p) == p.checksum = CalculateChecksum(p.seq_num, p.ptype, p.data)

\* Packet.unpack: a packet, or the ValueError it raises.
Unpack(raw) ==
    IF Len(raw) < HEADER_SIZE
    THEN [error |-> "Invalid packet length"]
    ELSE LET header == SubSeq(raw, 1, HEADER_SIZE)
             hData  == SubSeq(raw, HEADER_SIZE + 1, Len(raw))
             hSeq   == FromBE(SubSeq(header, 1, 4))
             hType  == header[5]
             hLen   == FromBE(SubSeq(header, 6, 7))
             hSum   == SubSeq(header, 8, 11)
             temp   == [Packet(hSeq, hType, hData) EXCEPT !.checksum = hSum]
         IN  IF hType \notin PacketType
             THEN [error |-> "not a valid PacketType"]
             ELSE IF hLen # Len(hData)
             THEN [error |-> "Data length mismatch"]
             ELSE IF ~Validate(temp)
             THEN [error |-> "Checksum mismatch"]
             ELSE [error |-> "", packet |-> temp]

CodecInit ==
    /\ c_pc = "input"
    /\ c_in \in [seq_num : SeqInputs, ptype : PacketType,
                 data : SeqsUpTo(PayloadBytes, MaxPayloadLen)]
    /\ c_wire = <<>>
    /\ c_out = [error |-> "none"]

\* encode: Packet(seq, type, payload).pack()
Encode ==
    /\ c_pc = "input"
    /\ c_wire' = Pack(Packet(c_in.seq_num, c_in.ptype, c_in.data))
    /\ c_pc' = "packed"
    /\ UNCHANGED <<codecOthers, c_in, c_out>>

\* decode: Packet.unpack(bytes)
Decode ==
    /\ c_pc = "packed"
    /\ c_out' = Unpack(c_wire)
    /\ c_pc' = "unpacked"
    /\ UNCHANGED <<codecOthers, c_in, c_wire>>

\* A byte with bit k (0..7) inverted.
FlipBit(b, k) == BitXor(b, 2 ^ k)

\* What follows the frame on the stream: nothing (the peer closes), or the
\* frame of a next packet.
Trailers == { <<>>, Pack(Packet(1, 0, <<65>>)) }

\* recv_packet on a TCP socket: HEADER_SIZE bytes, then as many bytes as the
\* header's length field says, then Packet.unpack; ConnectionError when the
\* stream ends first.
recv_packet(stream) ==
    IF Len(stream) < HEADER_SIZE
    THEN [error |-> "Connection closed"]
    ELSE LET data_len == FromBE(SubSeq(stream, 6, 7))
         IN  IF Len(stream) - HEADER_SIZE < data_len
             THEN [error |-> "Connection closed"]
             ELSE Unpack(SubSeq(stream, 1, HEADER_SIZE + data_len))

\* One bit of one header byte of the frame is inverted on the way.
Corrupt(i, k) ==
    /\ c_pc = "packed"
    /\ i \in 1..HEADER_SIZE
    /\ k \in 0..7
    /\ c_wire' = [c_wire EXCEPT ![i] = FlipBit(@, k)]
    /\ c_pc' = "corrupted"
    /\ UNCHANGED <<codecOthers, c_in, c_out>>

\* The changed frame is decoded: by Packet.unpack on its bytes, and by
\* recv_packet from a stream on which the trailer follows it.
DecodeCorrupted(trail) ==
    /\ c_pc = "corrupted"
    /\ trail \in Trailers
    /\ c_out' = [error |-> "none", direct |-> Unpack(c_wire),
                 stream |-> recv_packet(c_wire \o trail), trail |-> trail]
    /\ c_pc' = "checked"
    /\ UNCHANGED <<codecOthers, c_in, c_wire>>

CodecNext ==
    \/ Encode
    \/ Decode
    \/ \E i \in 1..HEADER_SIZE, k \in 0..7 : Corrupt(i, k)
    \/ \E trail \in Trailers : DecodeCorrupted(trail)

\* C10: for every (seq, type, payload) of the input sets, decoding the
\* bytes produced by encoding succeeds and yields exactly (seq, type, payload).
C10_RoundTrip ==
    c_pc = "unpacked" =>
        /\ c_out.error = ""
        /\ c_out.packet.seq_num = c_in.seq_num
        /\ c_out.packet.ptype = c_in.ptype
        /\ c_out.packet.data = c_in.data

\* A two-byte payload with the largest sequence number has gone through
\* encode and decode.
C10_Witness ==
    /\ c_pc = "unpacked"
    /\ Len(c_in.data) = 2
    /\ c_in.seq_num = 2147483647
    /\ Len(c_wire) = HEADER_SIZE + 2

\* The errors Packet.unpack and recv_packet end with.
DecodeErrors == { "Invalid packet length", "not a valid PacketType",
                  "Data length mismatch", "Checksum mismatch", "Connection closed" }

\* C11: a valid frame with one header byte changed is never decoded into a
\* packet: Packet.unpack on its bytes raises (invalid type, length mismatch
\* or checksum mismatch), and so does recv_packet reading it from a stream.
C11_HeaderMutationRejected ==
    c_pc = "checked" =>
        /\ c_out.direct.error \in { "not a valid PacketType", "Data length mismatch",
                                    "Checksum mismatch" }
        /\ c_out.stream.error \in DecodeErrors

\* A frame whose length field was changed from 2 to 3 has been read from a
\* stream with a following frame: the lengths agree and the checksum does not.
C11_Witness ==
    /\ c_pc = "checked"
    /\ Len(c_in.data) = 2
    /\ FromBE(SubSeq(c_wire, 6, 7)) = 3
    /\ c_out.trail # <<>>
    /\ c_out.direct.error = "Data length mismatch"
    /\ c_out.stream.error = "Checksum mismatch"

(***************************************************************************)
(*       PART 2.  Session: handshake, reader, sequence numbers, send       *)
(***************************************************************************)

\* Calls of ClientSession.send in a run.
MaxFrames == 2

\* Frames the peers send in a run.
MaxRecv == 2

\* protocol.sessions: two connections.
Sessions == {"a", "b"}

\* Two threads that are inside ClientSession.send of one session at the
\* same time. send is called by the match thread (game_session lines 92-97
\* and 154-157, run_two_player_game), by the read_input threads of
\* handle_turn (lines 398-405), by handle_client (server.py lines 242, 253)
\* and by broadcast_message (line 41); a read_input thread sends while the
\* match thread that started it does.
SendThreads == {"match", "input"}

\* The sentinel message_handler puts on recv_buffer.
SENTINEL == "CONNECTION_ERROR"

\* class PacketType: the names it defines.
PacketTypeNames == {"DATA", "ACK", "NACK", "ERROR"}

\* Packet.__init__(self, seq_num, ptype, data=b''): the keywords it takes.
PacketKeywords == {"seq_num", "ptype", "data"}

\* The attributes ClientSession.recv reads next to those Packet has.
PacketAttributesOfCallers == {"seq_num", "sequence_number", "ptype", "data", "checksum"}

\* The attributes Packet.__init__ sets.
PacketAttributes == {"seq_num", "ptype", "data", "checksum"}

\* What a peer does first on a connection the server has accepted: a DATA
\* frame with a USER line, a DATA frame with another line, a frame that
\* Packet.unpack rejects, or closing the connection.
FirstFrames ==
    { [kind |-> "frame", text |-> "USER alice"],
      [kind |-> "frame", text |-> "FIRE A1"],
      [kind |-> "bad", text |-> ""],
      [kind |-> "eof", text |-> ""] }

\* packet.data.decode("utf-8") (server.py line 190) of the DATA frames that
\* arrive on a connection after the first one. The frames come from a peer
\* that builds them with Packet(seq_num, ...); client.py builds its frames
\* with Packet(sequence_number=...), which raises, and writes none.
DataTexts == {"FIRE A1"}

\* A thread outside ClientSession.send.
IdleThread == [pc |-> "idle", sess |-> "none", echo |-> FALSE, seq |-> 0,
               tmp |-> 0, peer |-> 0]

\* History of a session: the frames its peer has sent, the sequence number
\* of the latest one the server has read, whether a read of the reader has
\* failed ("no", or on what: "frame", "decode", "eof") and the puts made on
\* recv_buffer since, the calls of send, and the calls of protocol.Packet
\* made by them, in order.
NoHistory == [frames |-> 0, lastPeer |-> 0, failed |-> "no", failPuts |-> 0,
              sends |-> 0, tries |-> <<>>]

SessIdle ==
    /\ s_conn = <<>>
    /\ s_clientSeq = <<>>
    /\ s_serverSeq = <<>>
    /\ s_lock = <<>>
    /\ s_queue = <<>>
    /\ s_wire = <<>>
    /\ s_reader = <<>>
    /\ s_thr = <<>>
    /\ s_hist = <<>>

\* ClientSession.__init__ on each connection. A connection is one that main
\* has accepted, handle_client being about to read its first frame, or one
\* on which message_handler has been started on its own.
SessInit ==
    /\ s_conn \in [Sessions -> {"accepted", "open"}]
    /\ s_clientSeq = [x \in Sessions |-> 0]
    /\ s_serverSeq = [x \in Sessions |-> 0]
    /\ s_lock = [x \in Sessions |-> "none"]
    /\ s_queue = [x \in Sessions |-> <<>>]
    /\ s_wire = [x \in Sessions |-> <<>>]
    /\ s_reader = [x \in Sessions |-> IF s_conn[x] = "open" THEN "running" ELSE "unstarted"]
    /\ s_thr = [t \in SendThreads |-> IdleThread]
    /\ s_hist = [x \in Sessions |-> NoHistory]

\* seq_num of the next frame read from x's connection (protocol.py line
\* 64): the frames that arrive are numbered 1, 2, ...
PeerSeq(x) == s_hist[x].frames + 1

\* A frame of the peer has been read by the server.
NoteFrame(h) == [h EXCEPT !.frames = @ + 1, !.lastPeer = h.frames + 1]

NotePut(h) == IF h.failed # "no" THEN [h EXCEPT !.failPuts = @ + 1] ELSE h

FramesSent == s_hist["a"].sends + s_hist["b"].sends

FramesRead == s_hist["a"].frames + s_hist["b"].frames

\* ClientSession.recv on what the peer did, frame numbered seq: the line
\* returned (none: it returns None) and the value client_seq has
\* afterwards. Line 54 reads packet.sequence_number; the AttributeError of a
\* Packet without that attribute is caught at line 56 like the errors of
\* recv_packet.
recv(first, seq, client_seq) ==
    IF first.kind = "frame" /\ "sequence_number" \in PacketAttributes
    THEN [none |-> FALSE, line |-> first.text, client_seq |-> seq]
    ELSE [none |-> TRUE, line |-> "None", client_seq |-> client_seq]

\* first_line.split(" ", 1)[1] (line 203) of the USER lines clients send.
UsernameOf == ("USER alice" :> "alice") @@ ("USER bob" :> "bob")

\* first_line.startswith("USER ")
IsUserLine(line) == line \in DOMAIN UsernameOf

\* handle_client, lines 196-208 and 255-257: the first frame is read with
\* session.recv. None.startswith raises AttributeError and line 257 closes
\* the connection; a line that is not a USER line closes it at line 200;
\* after a USER line message_handler is started.
Handshake(x, first) ==
    /\ s_conn[x] = "accepted"
    /\ first \in FirstFrames
    /\ first.kind # "eof" => FramesRead < MaxRecv
    /\ LET r == recv(first, PeerSeq(x), s_clientSeq[x])
           joined == ~r.none /\ IsUserLine(r.line)
       IN  /\ s_clientSeq' = [s_clientSeq EXCEPT ![x] = r.client_seq]
           /\ s_conn' = [s_conn EXCEPT ![x] = IF joined THEN "open" ELSE "shut"]
           /\ s_reader' = [s_reader EXCEPT ![x] = IF joined THEN "running" ELSE @]
    /\ s_hist' = [s_hist EXCEPT ![x] =
                    IF first.kind = "frame" THEN NoteFrame(@)
                    ELSE IF first.kind = "bad" THEN [@ EXCEPT !.frames = @ + 1]
                    ELSE @]
    /\ UNCHANGED <<sessOthers, s_serverSeq, s_lock, s_queue, s_wire, s_thr>>

\* The peer closes a connection on which message_handler runs.
PeerClose(x) ==
    /\ s_conn[x] = "open"
    /\ s_conn' = [s_conn EXCEPT ![x] = "closed"]
    /\ UNCHANGED <<sessOthers, s_clientSeq, s_serverSeq, s_lock, s_queue, s_wire,
                   s_reader, s_thr, s_hist>>

\* message_handler is in its loop and a frame of the peer can be read.
ReaderCanRead(x) ==
    /\ s_reader[x] = "running"
    /\ s_conn[x] = "open"
    /\ FramesRead < MaxRecv

\* A reader that goes on reading after its except branch.
ReaderKeepsRunning == "running"

\* message_handler, line 194: break
ReaderAfterFailure == "stopped"

\* message_handler, lines 191-194: the sentinel is put on recv_buffer and
\* the loop is left.
ReaderFailure(x, hist, on) ==
    /\ s_queue' = [s_queue EXCEPT ![x] = Append(@, SENTINEL)]
    /\ s_reader' = [s_reader EXCEPT ![x] = ReaderAfterFailure]
    /\ s_hist' = [s_hist EXCEPT ![x] =
                    [hist EXCEPT !.failed = IF @ = "no" THEN on ELSE @,
                                 !.failPuts = @ + 1]]

\* message_handler, lines 185-190, on a DATA frame: line 186 compares the
\* type with protocol.PacketType.CHAT, an AttributeError when the class has
\* no such name, which ends in the except branch; otherwise the line is put
\* on recv_buffer.
ReaderData(x, text) ==
    /\ ReaderCanRead(x)
    /\ IF "CHAT" \in PacketTypeNames
       THEN /\ s_queue' = [s_queue EXCEPT ![x] = Append(@, text)]
            /\ s_hist' = [s_hist EXCEPT ![x] = NotePut(NoteFrame(@))]
            /\ UNCHANGED s_reader
       ELSE ReaderFailure(x, NoteFrame(s_hist[x]), "frame")
    /\ UNCHANGED <<sessOthers, s_conn, s_clientSeq, s_serverSeq, s_lock, s_wire, s_thr>>

\* message_handler on an ACK, NACK or ERROR frame: line 186 as for a DATA
\* frame; otherwise nothing is done with the frame.
ReaderOther(x, ptype) ==
    /\ ReaderCanRead(x)
    /\ ptype \in PacketTypeNames \ {"DATA"}
    /\ IF "CHAT" \in PacketTypeNames
       THEN /\ s_hist' = [s_hist EXCEPT ![x] = NoteFrame(@)]
            /\ UNCHANGED <<s_queue, s_reader>>
       ELSE ReaderFailure(x, NoteFrame(s_hist[x]), "frame")
    /\ UNCHANGED <<sessOthers, s_conn, s_clientSeq, s_serverSeq, s_lock, s_wire, s_thr>>

\* recv_packet raises ConnectionError: the peer has closed the connection.
ReaderEof(x) ==
    /\ s_reader[x] = "running"
    /\ s_conn[x] = "closed"
    /\ ReaderFailure(x, s_hist[x], "eof")
    /\ UNCHANGED <<sessOthers, s_conn, s_clientSeq, s_serverSeq, s_lock, s_wire, s_thr>>

\* recv_packet raises ValueError: Packet.unpack rejects the frame (length,
\* checksum, or a type byte that PacketType does not have).
ReaderDecodeError(x) ==
    /\ ReaderCanRead(x)
    /\ ReaderFailure(x, [s_hist[x] EXCEPT !.frames = @ + 1], "decode")
    /\ UNCHANGED <<sessOthers, s_conn, s_clientSeq, s_serverSeq, s_lock, s_wire, s_thr>>

\* ClientSession.send, line 41, entered by a thread: with use_client_seq
\* the number is client_seq, otherwise get_next_server_seq is called.
SendBegin(t, x, echo) ==
    /\ s_thr[t].pc = "idle"
    /\ FramesSent < MaxFrames
    /\ s_thr' = [s_thr EXCEPT ![t] =
                    [IdleThread EXCEPT !.pc = IF echo THEN "build" ELSE "lock",
                                       !.sess = x, !.echo = echo,
                                       !.seq = IF echo THEN s_clientSeq[x] ELSE 0,
                                       !.peer = s_hist[x].lastPeer]]
    /\ s_hist' = [s_hist EXCEPT ![x].sends = @ + 1]
    /\ UNCHANGED <<sessOthers, s_conn, s_clientSeq, s_serverSeq, s_lock, s_queue, s_wire,
                   s_reader>>

\* A lock that admits a thread while another holds it.
LockNeverHeld(holder) == TRUE

\* threading.Lock: free to take when nobody holds it.
LockFree(holder) == holder = "none"

\* get_next_server_seq: with self.lock
SeqLock(t) ==
    /\ s_thr[t].pc = "lock"
    /\ LockFree(s_lock[s_thr[t].sess])
    /\ s_lock' = [s_lock EXCEPT ![s_thr[t].sess] = t]
    /\ s_thr' = [s_thr EXCEPT ![t].pc = "load"]
    /\ UNCHANGED <<sessOthers, s_conn, s_clientSeq, s_serverSeq, s_queue, s_wire, s_reader,
                   s_hist>>

\* get_next_server_seq: self.server_seq += 1, the read
SeqLoad(t) ==
    /\ s_thr[t].pc = "load"
    /\ s_thr' = [s_thr EXCEPT ![t].pc = "store", ![t].tmp = s_serverSeq[s_thr[t].sess]]
    /\ UNCHANGED <<sessOthers, s_conn, s_clientSeq, s_serverSeq, s_lock, s_queue, s_wire,
                   s_reader, s_hist>>

\* get_next_server_seq: self.server_seq += 1, the write; return
\* self.server_seq; and the lock is released
SeqStore(t) ==
    /\ s_thr[t].pc = "store"
    /\ s_serverSeq' = [s_serverSeq EXCEPT ![s_thr[t].sess] = s_thr[t].tmp + 1]
    /\ s_thr' = [s_thr EXCEPT ![t].pc = "build", ![t].tmp = 0,
                              ![t].seq = s_thr[t].tmp + 1]
    /\ s_lock' = [s_lock EXCEPT ![s_thr[t].sess] = "none"]
    /\ UNCHANGED <<sessOthers, s_conn, s_clientSeq, s_queue, s_wire, s_reader, s_hist>>

\* ClientSession.send, lines 42-49, on a connection in state conn: the
\* exception the call ends with, "none" when the frame is written. Line 45
\* calls protocol.Packet(sequence_number=seq, ...): a TypeError when
\* Packet.__init__ takes no such keyword, raised before send_packet is
\* called and not an OSError, so that lines 47-49 let it through. The
\* OSError of a write on a connection that is gone becomes
\* ConnectionResetError.
SendError(conn) ==
    IF "sequence_number" \notin PacketKeywords THEN "TypeError"
    ELSE IF conn \in {"closed", "shut"} THEN "ConnectionResetError"
    ELSE "none"

\* ClientSession.send, lines 42-49: the packet is built and written, or the
\* call raises.
SendPacket(t) ==
    /\ s_thr[t].pc = "build"
    /\ LET x == s_thr[t].sess
           error == SendError(s_conn[x])
           frame == [seq |-> s_thr[t].seq, echo |-> s_thr[t].echo,
                     peer |-> s_thr[t].peer, by |-> t, error |-> error]
       IN  /\ s_wire' = [s_wire EXCEPT ![x] = IF error = "none" THEN Append(@, frame) ELSE @]
           /\ s_hist' = [s_hist EXCEPT ![x].tries = Append(@, frame)]
    /\ s_thr' = [s_thr EXCEPT ![t] = IdleThread]
    /\ UNCHANGED <<sessOthers, s_conn, s_clientSeq, s_serverSeq, s_lock, s_queue, s_reader>>

SessNext ==
    \/ \E x \in Sessions, first \in FirstFrames : Handshake(x, first)
    \/ \E x \in Sessions : PeerClose(x)
    \/ \E x \in Sessions, text \in DataTexts : ReaderData(x, text)
    \/ \E x \in Sessions, ptype \in PacketTypeNames : ReaderOther(x, ptype)
    \/ \E x \in Sessions : ReaderEof(x)
    \/ \E x \in Sessions : ReaderDecodeError(x)
    \/ \E t \in SendThreads, x \in Sessions, echo \in BOOLEAN : SendBegin(t, x, echo)
    \/ \E t \in SendThreads : SeqLock(t)
    \/ \E t \in SendThreads : SeqLoad(t)
    \/ \E t \in SendThreads : SeqStore(t)
    \/ \E t \in SendThreads : SendPacket(t)

\* The calls of protocol.Packet on session x whose number came from the
\* outgoing counter.
CounterTries(x) == {i \in 1..Len(s_hist[x].tries) : ~s_hist[x].tries[i].echo}

\* C7: after a read failure (peer close or decode error) the reader has put
\* exactly one sentinel on the inbound FIFO, has stopped, and has put
\* nothing after it.
C7_OneSentinelThenStop ==
    \A x \in Sessions :
        s_hist[x].failed # "no" =>
            /\ s_reader[x] = "stopped"
            /\ s_hist[x].failPuts = 1
            /\ s_queue[x][Len(s_queue[x])] = SENTINEL

\* One reader has failed on a frame that Packet.unpack rejects, on a
\* connection that is still open, and another has failed on a peer close.
C7_Witness ==
    /\ s_hist["a"].failed = "decode" /\ s_conn["a"] = "open"
    /\ s_hist["b"].failed = "eof" /\ s_conn["b"] = "closed"

\* C8: on one session no two frames numbered from the outgoing counter
\* carry the same sequence number, whatever the interleaving of the
\* senders: no two calls that build a frame are given the same number.
C8_NoDuplicateSeq ==
    \A x \in Sessions : \A i, j \in CounterTries(x) :
        i # j => s_hist[x].tries[i].seq # s_hist[x].tries[j].seq

\* The match thread and a read_input thread were inside send on one session
\* at the same time: the call that built its frame first had drawn the
\* later number.
C8_Witness ==
    \E x \in Sessions :
        /\ CounterTries(x) = {1, 2}
        /\ s_hist[x].tries[1].by # s_hist[x].tries[2].by
        /\ s_hist[x].tries[1].seq > s_hist[x].tries[2].seq

\* C9: a send with use_client_seq=True carries the sequence number of the
\* most recent frame received from that peer, frames read by the reader
\* after the handshake included, and leaves the outgoing counter unchanged.
C9_EchoIsLastPeerSeq ==
    \A x \in Sessions :
        /\ \A i \in 1..Len(s_hist[x].tries) :
              s_hist[x].tries[i].echo =>
                  s_hist[x].tries[i].seq = s_hist[x].tries[i].peer
        /\ \A t \in SendThreads :
              (s_thr[t].sess = x /\ s_thr[t].echo) => s_thr[t].pc = "build"

\* C26: a frame that Packet.unpack rejects on a connection that stays open
\* is dropped: the reader is still running and has put no sentinel on the
\* inbound FIFO, so that the frames that follow are read.
C26_BadFrameDropped ==
    \A x \in Sessions :
        (s_hist[x].failed = "decode" /\ s_conn[x] = "open") =>
            /\ s_reader[x] = "running"
            /\ \A i \in 1..Len(s_queue[x]) : s_queue[x][i] # SENTINEL

\* C29: on one session the frames numbered from the outgoing counter are
\* written to the connection in strictly increasing order of their
\* numbers: when no send is under way the connection holds the frames of
\* the calls made, with the numbers 1, 2, ... in this order.
C29_IncreasingOnWire ==
    \A x \in Sessions :
        (\A t \in SendThreads : s_thr[t].sess # x) =>
            /\ Len(s_wire[x]) = Len(s_hist[x].tries)
            /\ \A i, j \in 1..Len(s_wire[x]) :
                  (i < j /\ ~s_wire[x][i].echo /\ ~s_wire[x][j].echo)
                      => s_wire[x][i].seq < s_wire[x][j].seq

(***************************************************************************)
(*      PART 3.  The match: boards, run_two_player_game, handle_turn       *)
(***************************************************************************)

\* BOARD_SIZE
BOARD_SIZE == 10

\* SHIPS
SHIPS == << [name |-> "Carrier", size |-> 5],
            [name |-> "Battleship", size |-> 4],
            [name |-> "Cruiser", size |-> 3],
            [name |-> "Submarine", size |-> 3],
            [name |-> "Destroyer", size |-> 2] >>

\* chr(ord("A") + r), line 382: the row labels.
UpperCase == << "A", "B", "C", "D", "E", "F", "G", "H", "I", "J", "K", "L", "M",
                "N", "O", "P", "Q", "R", "S", "T", "U", "V", "W", "X", "Y", "Z" >>

\* The sentinel the reader enqueues when its read fails
CONNECTION_ERROR == "CONNECTION_ERROR"

\* The values of guess that handle_turn tells apart (lines 438-483), put on
\* the mover's recv_buffer by the caller of the function: FIRE at a cell in
\* capitals and in small letters, at a cell off the board, without a
\* coordinate, and quit.
TurnTexts == { "FIRE A1", "fire a2", "FIRE B1", "FIRE K1", "FIRE", "quit" }

\* ---- class Board ----

Cells(size) == (0..(size - 1)) \X (0..(size - 1))

\* Board.__init__
Board(size) ==
    [ size |-> size,
      hidden_grid |-> [cell \in Cells(size) |-> "."],
      display_grid |-> [cell \in Cells(size) |-> "."],
      placed_ships |-> <<>> ]

\* The cells a ship of ship_size covers from (row, col); orientation 0 is
\* horizontal, anything else vertical.
ShipCells(row, col, ship_size, orientation) ==
    IF orientation = 0
    THEN { <<row, c>> : c \in col..(col + ship_size - 1) }
    ELSE { <<r, col>> : r \in row..(row + ship_size - 1) }

\* Board.can_place_ship
can_place_ship(board, row, col, ship_size, orientation) ==
    IF orientation = 0
    THEN /\ ~(col + ship_size > board.size)
         /\ \A c \in col..(col + ship_size - 1) : board.hidden_grid[<<row, c>>] = "."
    ELSE /\ ~(row + ship_size > board.size)
         /\ \A r \in row..(row + ship_size - 1) : board.hidden_grid[<<r, col>>] = "."

\* Board.do_place_ship: marks 'S'; the occupied set is ShipCells.
do_place_ship(board, row, col, ship_size, orientation) ==
    [board EXCEPT !.hidden_grid =
        [cell \in Cells(board.size) |->
            IF cell \in ShipCells(row, col, ship_size, orientation)
            THEN "S" ELSE board.hidden_grid[cell]]]

\* Board._mark_hit_and_check_sunk: [ships, name]; name "None" for None.
mark_hit_and_check_sunk(placed_ships, row, col) ==
    LET owners == { i \in 1..Len(placed_ships) :
                        <<row, col>> \in placed_ships[i].positions }
    IN  IF owners = {} THEN [ships |-> placed_ships, name |-> "None"]
        ELSE LET i == CHOOSE x \in owners : \A y \in owners : x <= y
                 left == placed_ships[i].positions \ { <<row, col>> }
             IN  [ ships |-> [placed_ships EXCEPT ![i].positions = left],
                   name |-> IF left = {} THEN placed_ships[i].name ELSE "None" ]

\* fire_at marking display_grid only: hidden_grid keeps 'S' or '.'.
fire_at_unmarked(board, row, col) ==
    LET cell == board.hidden_grid[<<row, col>>]
    IN  IF cell = "S"
        THEN LET m == mark_hit_and_check_sunk(board.placed_ships, row, col)
             IN  [ board |-> [board EXCEPT !.display_grid[<<row, col>>] = "X",
                                           !.placed_ships = m.ships],
                   result |-> "hit", sunk |-> m.name ]
        ELSE IF cell = "."
        THEN [ board |-> [board EXCEPT !.display_grid[<<row, col>>] = "o"],
               result |-> "miss", sunk |-> "None" ]
        ELSE [ board |-> board, result |-> "already_shot", sunk |-> "None" ]

\* Board.fire_at: [board, result, sunk]
fire_at(board, row, col) ==
    LET cell == board.hidden_grid[<<row, col>>]
    IN  IF cell = "S"
        THEN LET m == mark_hit_and_check_sunk(board.placed_ships, row, col)
             IN  [ board |-> [board EXCEPT !.hidden_grid[<<row, col>>] = "X",
                                           !.display_grid[<<row, col>>] = "X",
                                           !.placed_ships = m.ships],
                   result |-> "hit", sunk |-> m.name ]
        ELSE IF cell = "."
        THEN [ board |-> [board EXCEPT !.hidden_grid[<<row, col>>] = "o",
                                       !.display_grid[<<row, col>>] = "o"],
               result |-> "miss", sunk |-> "None" ]
        ELSE [ board |-> board, result |-> "already_shot", sunk |-> "None" ]

\* place_ships_manually, lines 556-562: a ship that fits is put on the grid
\* and appended to placed_ships.
PlaceShip(board, ship, row, col, orientation) ==
    IF can_place_ship(board, row, col, ship.size, orientation)
    THEN [ do_place_ship(board, row, col, ship.size, orientation)
             EXCEPT !.placed_ships =
                Append(board.placed_ships,
                       [ name |-> ship.name,
                         positions |-> ShipCells(row, col, ship.size, orientation) ]) ]
    ELSE board

RECURSIVE PlaceAll(_, _, _)
PlaceAll(board, layout, i) ==
    IF i > Len(layout) THEN board
    ELSE PlaceAll(PlaceShip(board, SHIPS[i], layout[i][1], layout[i][2], layout[i][3]),
                  layout, i + 1)

RECURSIVE FireAll(_, _)
FireAll(board, shots) ==
    IF shots = {} THEN board
    ELSE LET shot == CHOOSE x \in shots : TRUE
         IN  FireAll(fire_at(board, shot[1], shot[2]).board, shots \ {shot})

\* Two fleets: the Destroyer lies on A1-A2 in one and on A1-B1 in the other.
LayoutAcross == << <<2, 0, 0>>, <<3, 0, 0>>, <<4, 0, 0>>, <<5, 0, 0>>, <<0, 0, 0>> >>

LayoutDown == << <<2, 0, 0>>, <<3, 0, 0>>, <<4, 0, 0>>, <<5, 0, 0>>, <<0, 0, 1>> >>

\* The cells of the four larger ships in both fleets.
LargeShipCells ==
    UNION { ShipCells(LayoutAcross[i][1], LayoutAcross[i][2], SHIPS[i].size, 0) : i \in 1..4 }

\* Boards of a match in progress, as run_two_player_game receives them when
\* it resumes a match: all five ships placed, the four larger ones sunk; left
\* afloat are A1 and A2 on the first board, only A1 on the second, where B1
\* has been hit and A2 is water.
BoardAcross == FireAll(PlaceAll(Board(BOARD_SIZE), LayoutAcross, 1), LargeShipCells)

BoardDown ==
    FireAll(PlaceAll(Board(BOARD_SIZE), LayoutDown, 1), LargeShipCells \cup { <<1, 0>> })


\* ---- run_two_player_game ----

\* Seconds the clock advances in one step.
TimeStep == 10

\* The clock stops here.
MaxWaitClock == 50

Players == {1, 2}

\* The spectators list handed to run_two_player_game: two spectators,
\* numbers 3 and 4.
Spectators == << 3, 4 >>

Recipients == {1, 2, 3, 4}

OtherPlayer(p) == 3 - p

\* Lines 598-604: a turn that returns True hands the move to the opponent.
PassTurn(p) == OtherPlayer(p)

\* The boards run_two_player_game is called with: those of a new match
\* (server.py lines 64-65), or those of a match in progress.
EmptyBoards == << Board(BOARD_SIZE), Board(BOARD_SIZE) >>

StartBoards == << BoardAcross, BoardDown >>

\* The functions of the match: run_two_player_game, and its inner functions
\* handle_turn, place_ships_manually and broadcast_to_spectators called on
\* their own.
Entries == {"game", "turn", "place", "cast"}

\* A read_input thread with the Event objects and the user_input cell of
\* its iteration.
NoThread ==
    [ pc |-> "none", timeout_occurred |-> FALSE, input_received |-> FALSE,
      user_input |-> "None" ]

\* The called function has not ended.
NoOutcome == [kind |-> "none", value |-> "None", error |-> "none"]

TurnIdle ==
    /\ t_in = <<>>
    /\ t_board = <<>>
    /\ t_current = 0
    /\ t_pc = "idle"
    /\ t_thr = NoThread
    /\ t_queue = <<>>
    /\ t_conn = <<>>
    /\ t_seq = <<>>
    /\ t_now = 0
    /\ t_sent = <<>>
    /\ t_out = NoOutcome
    /\ t_cast = 0

\* A function of the match is called. The boards are new or those of a
\* match in progress; it is the turn of either player; the recv_buffer of
\* the player to move is empty or holds a line or the sentinel; the first
\* spectator's client is there or has gone away.
TurnInit ==
    /\ t_in \in [ entry : Entries, boards : {EmptyBoards, StartBoards},
                  current : Players,
                  input : {<<>>} \cup { <<text>> : text \in TurnTexts \cup {CONNECTION_ERROR} } ]
    /\ t_in.entry \in {"turn", "cast"} => t_in.boards = StartBoards
    /\ t_in.entry = "place" => t_in.boards = EmptyBoards
    /\ t_board = t_in.boards
    /\ t_current = t_in.current
    /\ t_pc = IF t_in.entry = "turn" THEN "turn" ELSE "called"
    /\ t_thr = NoThread
    /\ t_queue = [p \in Players |-> IF p = t_in.current THEN t_in.input ELSE <<>>]
    /\ t_conn \in { c \in [Recipients -> {"open", "closed"}] :
                        \A r \in Recipients \ {Spectators[1]} : c[r] = "open" }
    /\ t_seq = [r \in Recipients |-> 0]
    /\ t_now = 0
    /\ t_sent = <<>>
    /\ t_out = NoOutcome
    /\ t_cast = 1

\* A line sent to a client: the text or, for an f-string, its template and
\* the value put into it. The full-width comma and exclamation mark of the
\* source's texts are written here as ", " and left out.
Line(text) == [text |-> text, arg |-> ""]

Fmt(text, arg) == [text |-> text, arg |-> arg]

PlayerName(p) == IF p = 1 THEN "Player 1" ELSE "Player 2"

\* A series of session.send calls: to whom, what, whether the number is
\* client_seq (use_client_seq=True), and whether the caller swallows a
\* failure (broadcast_to_spectators does).
SendTo(r, msg) == << [to |-> r, msg |-> msg, echo |-> FALSE, sw |-> FALSE] >>

SendEcho(r, msg) == << [to |-> r, msg |-> msg, echo |-> TRUE, sw |-> FALSE] >>

\* broadcast_to_spectators
broadcast_to_spectators(msg) ==
    [i \in 1..Len(Spectators) |->
        [to |-> Spectators[i], msg |-> msg, echo |-> FALSE, sw |-> TRUE]]

\* send_board: "GRID", the header line and one line for each row.
send_board(r) ==
    SendTo(r, Line("GRID")) \o SendTo(r, Line("<column numbers>"))
    \o [i \in 1..BOARD_SIZE |->
          [to |-> r, msg |-> Fmt("<row_label> <row_str>", UpperCase[i]),
           echo |-> FALSE, sw |-> FALSE]]

\* The call of a series at which an exception leaves the series: the first
\* send that raises and whose failure is not swallowed; 0 when none does.
FailAt(plan) ==
    LET raising == { k \in 1..Len(plan) :
                        ~plan[k].sw /\ SendError(t_conn[plan[k].to]) # "none" }
    IN  IF raising = {} THEN 0
        ELSE CHOOSE k \in raising : \A j \in raising : k <= j

\* The exception that leaves the series, "none" when it runs to its end.
ErrorOf(plan) ==
    IF FailAt(plan) = 0 THEN "none" ELSE SendError(t_conn[plan[FailAt(plan)].to])

\* The calls of the series that are made.
Attempted(plan) == { i \in 1..Len(plan) : FailAt(plan) = 0 \/ i <= FailAt(plan) }

\* The calls of the series that write their frame.
Completed(plan) ==
    { i \in Attempted(plan) : SendError(t_conn[plan[i].to]) = "none" }

\* The lines of the series that were written, in order.
Sent(plan) ==
    LET done == Completed(plan)
        F[i \in 0..Len(plan)] ==
            IF i = 0 THEN <<>>
            ELSE IF i \in done
                 THEN Append(F[i - 1], [to |-> plan[i].to, msg |-> plan[i].msg])
                 ELSE F[i - 1]
    IN  F[Len(plan)]

\* server_seq of the sessions after the series: every call made without
\* use_client_seq has taken a number from its session's counter.
Counted(plan) ==
    [r \in Recipients |->
        t_seq[r] + Cardinality({ i \in Attempted(plan) : plan[i].to = r /\ ~plan[i].echo })]

\* The series is run: lines written, counters advanced.
Run(plan) ==
    /\ t_sent' = t_sent \o Sent(plan)
    /\ t_seq' = Counted(plan)

\* Whether the text was written to recipient r.
WasSent(r, text) ==
    \E i \in 1..Len(t_sent) : t_sent[i].to = r /\ t_sent[i].msg.text = text

\* How often the text was written to recipient r.
TimesSent(r, text) ==
    Cardinality({ i \in 1..Len(t_sent) : t_sent[i].to = r /\ t_sent[i].msg.text = text })

\* A function returns a value, or an exception leaves it.
Returned(value) == [kind |-> "returned", value |-> value, error |-> "none"]

Raised(error) == [kind |-> "raised", value |-> "None", error |-> error]

\* run_two_player_game, lines 576-594 and 606-607: the greetings; for
\* boards that hold ships the restore notice (sent to session1 for either
\* board) and the start line, and the loop of lines 596-604 is entered; for
\* new boards place_ships_manually is entered. An exception of a send is
\* swallowed by "finally: return board1, board2, current_player".
GameStart ==
    LET restored == t_board[1].placed_ships # <<>> /\ t_board[2].placed_ships # <<>>
        plan == SendTo(1, Line("Welcome to Battleship! You are Player 1."))
                \o SendTo(2, Line("Welcome to Battleship! You are Player 2."))
                \o (IF restored
                    THEN SendTo(1, Line("[INFO] restore game progress"))
                         \o SendTo(1, Line("[INFO] restore game progress"))
                         \o SendTo(1, Line("All ships placed. Game starts now!"))
                         \o SendTo(2, Line("All ships placed. Game starts now!"))
                    ELSE <<>>)
    IN  /\ t_in.entry = "game"
        /\ t_pc = "called"
        /\ Run(plan)
        /\ t_pc' = IF FailAt(plan) > 0 THEN "returned"
                   ELSE IF restored THEN "turn" ELSE "placing"
        /\ t_out' = IF FailAt(plan) > 0
                    THEN [Returned("board1, board2, current_player")
                            EXCEPT !.error = ErrorOf(plan)]
                    ELSE t_out
        /\ UNCHANGED <<turnOthers, t_cast, t_in, t_board, t_current, t_thr, t_queue, t_conn, t_now>>

\* handle_turn, lines 389-420: fresh Events, the read_input thread is
\* started and the match thread enters input_received.wait(30).
IterStart ==
    /\ t_pc = "turn"
    /\ t_thr.pc = "none"
    /\ t_thr' = [NoThread EXCEPT !.pc = "run"]
    /\ t_pc' = "wait"
    /\ t_now' = 0
    /\ UNCHANGED <<turnOthers, t_cast, t_in, t_board, t_current, t_queue, t_conn, t_seq,
                   t_sent, t_out>>

\* except ConnectionError (line 410) catches these.
ConnectionErrors == {"ConnectionResetError", "BrokenPipeError"}

\* read_input, lines 397-402 and 410-412: the thread sends the board and
\* the prompt. A ConnectionError of a send ends the thread through its
\* except branch with CONNECTION_ERROR as its result; another exception
\* ends the thread with nothing set; without exception the thread goes on
\* to recv_buffer.get().
ThreadSend ==
    LET p == t_current
        plan == send_board(p)
                \o SendEcho(p, Fmt("{player_name}, enter coordinate to fire at (e.g. B5):",
                                   PlayerName(p)))
        error == ErrorOf(plan)
    IN  /\ t_thr.pc = "run"
        /\ Run(plan)
        /\ t_thr' = IF error = "none" THEN [t_thr EXCEPT !.pc = "get"]
                    ELSE IF error \in ConnectionErrors
                    THEN [t_thr EXCEPT !.pc = "end", !.user_input = CONNECTION_ERROR,
                                       !.input_received = TRUE]
                    ELSE [t_thr EXCEPT !.pc = "dead"]
        /\ UNCHANGED <<turnOthers, t_cast, t_in, t_board, t_current, t_pc, t_queue, t_conn,
                       t_now, t_out>>

\* input_received.wait(30), line 420.
TurnTimeout == 30

\* Time passes while input_received is not set and the wait has not reached
\* its timeout, and no further than the timeout.
TurnTick ==
    /\ t_pc = "wait"
    /\ ~t_thr.input_received
    /\ t_now < TurnTimeout
    /\ t_now + TimeStep <= MaxWaitClock
    /\ LET left == TurnTimeout - t_now
       IN  t_now' = t_now + (IF left < TimeStep THEN left ELSE TimeStep)
    /\ UNCHANGED <<turnOthers, t_cast, t_in, t_board, t_current, t_pc, t_thr, t_queue, t_conn,
                   t_seq, t_sent, t_out>>

\* handle_turn, lines 420-422: input_received.wait(30) returns False and
\* timeout_occurred is set. The read_input thread may run before the match
\* thread goes on to its sends.
WaitTimesOut ==
    /\ t_pc = "wait"
    /\ ~t_thr.input_received
    /\ ~t_thr.timeout_occurred
    /\ t_now >= TurnTimeout
    /\ t_thr' = [t_thr EXCEPT !.timeout_occurred = TRUE]
    /\ UNCHANGED <<turnOthers, t_cast, t_in, t_board, t_current, t_pc, t_queue, t_conn,
                   t_seq, t_now, t_sent, t_out>>

\* handle_turn, lines 423-429, after timeout_occurred was set: the notices
\* are sent and the turn returns True, whereupon lines 598-604 hand the
\* move to the opponent. An exception of a send leaves handle_turn; in
\* run_two_player_game it is swallowed by the finally.
Timeout ==
    LET p == t_current
        plan == SendTo(p, Line("ERROR: out of time, skip the turn."))
                \o SendTo(OtherPlayer(p),
                          Fmt("{player_name} out of time, its your turn.", PlayerName(p)))
                \o broadcast_to_spectators(
                     Fmt("[SPECTATOR] {player_name} out of time, skip the turn",
                         PlayerName(p)))
        raised == FailAt(plan) > 0
    IN  /\ t_pc = "wait"
        /\ t_thr.timeout_occurred
        /\ Run(plan)
        /\ t_current' = IF raised THEN t_current ELSE PassTurn(p)
        /\ t_pc' = IF ~raised THEN "returned"
                   ELSE IF t_in.entry = "game" THEN "returned" ELSE "raised"
        /\ t_out' = IF ~raised THEN Returned("True")
                    ELSE IF t_in.entry = "game"
                    THEN [Returned("board1, board2, current_player")
                            EXCEPT !.error = ErrorOf(plan)]
                    ELSE Raised(ErrorOf(plan))
        /\ UNCHANGED <<turnOthers, t_cast, t_in, t_board, t_thr, t_queue, t_conn, t_now>>

\* place_ships_manually, lines 499-507: the greeting, the first PLACE prompt
\* and the format line are sent, and recv_buffer.get(timeout=30) is
\* entered; an exception of a send leaves the function.
PlaceBegin ==
    LET p == t_current
        plan == SendEcho(p, Fmt("{player_name}, place your ships on the board.",
                                PlayerName(p)))
                \o SendTo(p, Fmt("PLACE {ship_name} (size {ship_size})", SHIPS[1].name))
                \o SendEcho(p, Line("FORMAT: PLACE <coord> <H/V>"))
    IN  /\ t_in.entry = "place"
        /\ t_pc = "called"
        /\ Run(plan)
        /\ t_pc' = IF FailAt(plan) > 0 THEN "raised" ELSE "placing"
        /\ t_out' = IF FailAt(plan) > 0 THEN Raised(ErrorOf(plan)) ELSE t_out
        /\ UNCHANGED <<turnOthers, t_cast, t_in, t_board, t_current, t_thr, t_queue, t_conn, t_now>>

\* The message of a call of broadcast_to_spectators: line 486.
BroadcastText == Line("GRID")

\* broadcast_to_spectators called with a message, one round of the loop
\* of lines 349-354: the send to the spectator the loop is at, every
\* exception swallowed by the bare except; after the last spectator the
\* function returns None. A client may go away between two rounds.
Broadcast ==
    LET plan == << broadcast_to_spectators(BroadcastText)[t_cast] >>
        last == t_cast = Len(Spectators)
    IN  /\ t_in.entry = "cast"
        /\ t_pc = "called"
        /\ Run(plan)
        /\ t_cast' = t_cast + 1
        /\ t_pc' = IF last THEN "returned" ELSE t_pc
        /\ t_out' = IF last THEN Returned("None") ELSE t_out
        /\ UNCHANGED <<turnOthers, t_in, t_board, t_current, t_thr, t_queue, t_conn, t_now>>

\* The client of a player or of the second spectator goes away while the
\* function runs.
PlayerLeaves(r) ==
    /\ r \in Recipients \ {Spectators[1]}
    /\ t_pc \in {"called", "turn", "wait"}
    /\ t_conn[r] = "open"
    /\ \A q \in Recipients \ {Spectators[1]} : t_conn[q] = "open"
    /\ t_conn' = [t_conn EXCEPT ![r] = "closed"]
    /\ UNCHANGED <<turnOthers, t_cast, t_in, t_board, t_current, t_pc, t_thr, t_queue,
                   t_seq, t_now, t_sent, t_out>>

TurnNext ==
    \/ GameStart
    \/ IterStart
    \/ ThreadSend
    \/ TurnTick
    \/ WaitTimesOut
    \/ Timeout
    \/ PlaceBegin
    \/ Broadcast
    \/ \E r \in Recipients : PlayerLeaves(r)

\* ---- properties of the match ----

\* handle_turn was called on its own with this line on the buffer of the
\* player to move.
TurnWith(text) == t_in.entry = "turn" /\ t_in.input = <<text>>

\* The called function has ended.
Over == t_pc \in {"returned", "raised"}

\* C1 (as claimed): a turn that ended by timeout has been passed to the
\* opponent, no shot was resolved and the line on the buffer was not used.
C1_TimeoutWins ==
    (t_in.entry = "turn" /\ Over /\ t_thr.timeout_occurred) =>
        /\ t_current = PassTurn(t_in.current)
        /\ t_board = t_in.boards
        /\ t_queue[t_in.current] = t_in.input

\* C2 (as claimed): a line that is on the mover's buffer before the timeout
\* is taken as the input of the turn; the turn does not end by timeout.
C2_InTimeLineNotLost ==
    \A text \in TurnTexts :
        TurnWith(text) => ~t_thr.timeout_occurred /\ t_thr.pc # "dead"

\* C3 (as claimed): after a turn that ended by timeout the move is the
\* opponent's, both players and every connected spectator have their
\* notice, and the boards are as before.
C3_TimeoutPassesTurn ==
    (t_in.entry = "turn" /\ Over /\ t_thr.timeout_occurred) =>
        /\ t_current = PassTurn(t_in.current)
        /\ WasSent(t_in.current, "ERROR: out of time, skip the turn.")
        /\ WasSent(OtherPlayer(t_in.current), "{player_name} out of time, its your turn.")
        /\ \A i \in 1..Len(Spectators) :
              t_conn[Spectators[i]] = "open" =>
                  WasSent(Spectators[i], "[SPECTATOR] {player_name} out of time, skip the turn")
        /\ t_board = t_in.boards

\* C6 (as claimed): the turn in which Player 1 fires at A1, the last cell
\* afloat on the second board, sends one GAME_OVER winner line and one
\* GAME_OVER loser line.
C6_OneGameOverPair ==
    (TurnWith("FIRE A1") /\ t_in.current = 1 /\ Over) =>
        /\ TimesSent(1, "GAME_OVER You win! All ships sunk!") = 1
        /\ TimesSent(2, "GAME_OVER You lose! All your ships are sunk!") = 1

\* C12 (as claimed): a turn whose input is the sentinel aborts the match:
\* handle_turn returns False with the turn not passed and a line sent to
\* the opponent.
C12_SentinelAbortsMatch ==
    (TurnWith(CONNECTION_ERROR) /\ Over) =>
        /\ t_out = Returned("False")
        /\ t_current = t_in.current
        /\ \E i \in 1..Len(t_sent) : t_sent[i].to = OtherPlayer(t_in.current)

\* C14 (as claimed): a turn whose input is quit ends the match with the
\* opponent notified.
C14_QuitIsTerminal ==
    (TurnWith("quit") /\ Over) =>
        /\ t_out = Returned("False")
        /\ WasSent(OtherPlayer(t_in.current), "opponent player quit the game.")

\* C15 (as claimed): a quit during the placement ends place_ships_manually
\* with the opponent notified.
C15_PlacementQuitAborts ==
    (t_in.entry = "place" /\ t_in.input = <<"quit">> /\ Over) =>
        /\ t_out = Returned("False")
        /\ WasSent(OtherPlayer(t_in.current),
                   "opponent player quit the game, Thanks for playing. Goodbye.")

\* C24 (as claimed): after the turn in which Player 1 fires at A2 of the
\* second board, which is water, every connected spectator has the grid.
C24_GridAfterEveryShot ==
    (TurnWith("fire a2") /\ t_in.current = 1 /\ Over) =>
        \A i \in 1..Len(Spectators) :
            t_conn[Spectators[i]] = "open" => WasSent(Spectators[i], "GRID")

\* C25 (as claimed): a broadcast returns without exception when the send
\* to a spectator fails, and the other spectators have the message.
C25_SpectatorFailureContained ==
    (t_in.entry = "cast" /\ Over) =>
        /\ t_out = Returned("None")
        /\ \A i \in 1..Len(Spectators) :
              t_conn[Spectators[i]] = "open" =>
                  WasSent(Spectators[i], BroadcastText.text)

\* C27 (as claimed): a turn whose input is a FIRE without coordinate or
\* with a coordinate off the board sends the mover an error reply and
\* leaves the boards and the turn as they were.
C27_InvalidInputRetried ==
    \A text \in {"FIRE", "FIRE K1"} :
        (TurnWith(text) /\ Over) =>
            /\ WasSent(t_in.current, "ERROR: Use 'FIRE <coord>'")
                  \/ WasSent(t_in.current, "ERROR: Invalid coordinate")
            /\ t_board = t_in.boards
            /\ t_current = t_in.current

\* C33 (as claimed): the turn in which Player 1 fires at B1 of the second
\* board, which was hit before, is consumed: the move passes to Player 2,
\* the boards stay and no RESULT line is sent.
C33_AlreadyShotIsSilent ==
    (TurnWith("FIRE B1") /\ t_in.current = 1 /\ Over) =>
        /\ t_current = PassTurn(1)
        /\ t_board = t_in.boards
        /\ \A i \in 1..Len(t_sent) : t_sent[i].msg.text \notin
              {"RESULT MISS", "RESULT HIT OPPONENT SHIP", "RESULT HIT YOURS SHIP",
               "RESULT SINK {sunk_name}"}

(***************************************************************************)
(*      PART 4.  The registry: joins, match threads, snapshots             *)
(***************************************************************************)

\* Connections the server accepts during a run.
MaxJoins == 1

\* The clock stops here.
MaxClock == 61

\* The grace window of a snapshot, in seconds (server.py lines 141, 214).
GRACE == 60

\* The clock moves by one of these.
TickSteps == {60, 61}

\* Connections 1 and 2 belong to alice and bob, 3 and 4 to erin and frank,
\* who watch; carol and dave are the players of another match.
KnownUser == << "alice", "bob", "erin", "frank" >>

Usernames == {"alice", "bob", "carol", "dave", "erin", "frank"}

KnownConns == 1..Len(KnownUser)

\* The connections main accepts during the run.
NewConns == (Len(KnownUser) + 1)..(Len(KnownUser) + MaxJoins)

ConnIds == KnownConns \cup NewConns

\* The match threads: those of alice and bob at the start, and at most
\* one more for each connection, started in its join or by its promotion.
GameIds == ConnIds

\* A connection the server has not accepted; else the state of its socket
\* ("open", "closed" by the peer, "shut" by the server), the username of
\* its first line and for the history what the client sent first and
\* when, the branch handle_client took and the disconnect_time of the
\* snapshot it met.
NoConn == [sock |-> "none", user |-> "", first |-> "", at |-> -1, how |-> "",
           met |-> -1]

\* No entry under a username in disconnected.
NoSnapshot == [session |-> 0, board |-> <<>>, opponent_board |-> <<>>,
               disconnect_time |-> 0, current_player |-> 0, game_state |-> "none"]

\* The entry lines 121-128 store.
Snapshot(conn, board, opponent_board, time, current_player) ==
    [session |-> conn, board |-> board, opponent_board |-> opponent_board,
     disconnect_time |-> time, current_player |-> current_player,
     game_state |-> "IN_PROGRESS"]

\* handle_two_player_game: the game_session thread for the two connections,
\* about to look up their usernames. For the history: whether the match got
\* as far as the placement or the turn loop, the rematches, whether the
\* thread stored snapshots, and the exception that ended the thread. In the
\* teardown: pending_reconnects as counted so far and the snapshots the
\* generator of lines 142-146 has yet to test.
NewGame(p1, p2) ==
    [ p1 |-> p1, p2 |-> p2, pc |-> "begin", p1_name |-> "", p2_name |-> "",
      board1 |-> <<>>, board2 |-> <<>>, init_current_player |-> 1,
      current_player |-> 0, played |-> FALSE, round |-> 0, snapped |-> FALSE,
      pending |-> -1, todo |-> <<>>, raised |-> "none" ]

\* The lines on a player's recv_buffer when game_session starts.
AnswerTexts == {"Y", "quit"}

\* The globals of server.py game_session and handle_client are started on:
\* whether alice and bob are the active players, with
\* handle_two_player_game called for them once or twice (each of the calls
\* of lines 166-169, 229-231 and 247-250 starts a thread for two entries
\* of active_players, and none looks for a thread that runs), and in which
\* order they are on active_players; the spectators; the snapshots
\* ("match": of alice and bob, "other": of carol and dave), stored at time 0
\* with this current_player; and the line on each player's buffer.
StartStates ==
    { f \in [ match : BOOLEAN, threads : {1, 2}, order : {<<1, 2>>, <<2, 1>>},
              specs : {<<>>, <<3>>, <<3, 4>>},
              snap : {"none", "match", "other"}, holder : Players,
              lines : [Players -> {<<>>} \cup { <<a>> : a \in AnswerTexts }] ] :
        /\ f.snap = "none" => f.holder = 1
        /\ (~f.match /\ f.snap = "none") => f.specs = <<>>
        /\ ~f.match => f.order = <<1, 2>> /\ f.lines = [p \in Players |-> <<>>]
        /\ f.lines[2] # <<>> => f.lines = [p \in Players |-> <<"Y">>]
        /\ f.threads = 2 =>
              /\ f.match /\ f.snap = "none" /\ f.order = <<1, 2>>
              /\ f.lines = [p \in Players |-> <<>>] }

\* The boards of the snapshots of alice and bob.
SnapBoard == ("alice" :> BoardAcross) @@ ("bob" :> BoardDown)

RegIdle ==
    /\ r_in = <<>>
    /\ r_now = 0
    /\ r_conn = <<>>
    /\ r_active = <<>>
    /\ r_spectators = <<>>
    /\ r_player_sessions = <<>>
    /\ r_disconnected = <<>>
    /\ r_order = <<>>
    /\ r_queue = <<>>
    /\ r_games = <<>>
    /\ r_hist = <<>>

RegInit ==
    /\ r_in \in StartStates
    /\ r_now = 0
    /\ r_conn = [c \in ConnIds |->
                    IF c \in KnownConns
                    THEN [NoConn EXCEPT !.sock = "open", !.user = KnownUser[c]]
                    ELSE NoConn]
    /\ r_active = IF r_in.match THEN r_in.order ELSE <<>>
    /\ r_spectators = r_in.specs
    /\ r_player_sessions =
          [u \in Usernames |->
              IF \E c \in KnownConns :
                    /\ KnownUser[c] = u
                    /\ \/ c \in Players /\ (r_in.match \/ r_in.snap = "match")
                       \/ \E i \in 1..Len(r_in.specs) : r_in.specs[i] = c
              THEN CHOOSE c \in KnownConns : KnownUser[c] = u
              ELSE 0]
    /\ r_disconnected =
          [u \in Usernames |->
              IF r_in.snap = "match" /\ u = "alice"
              THEN Snapshot(1, SnapBoard[u], SnapBoard["bob"], 0, r_in.holder)
              ELSE IF r_in.snap = "match" /\ u = "bob"
              THEN Snapshot(2, SnapBoard[u], SnapBoard["alice"], 0, r_in.holder)
              ELSE IF r_in.snap = "other" /\ u \in {"carol", "dave"}
              THEN Snapshot(0, BoardAcross, BoardDown, 0, r_in.holder)
              ELSE NoSnapshot]
    /\ r_order = IF r_in.snap = "match" THEN << "alice", "bob" >>
                 ELSE IF r_in.snap = "other" THEN << "carol", "dave" >>
                 ELSE <<>>
    /\ r_queue = [c \in ConnIds |-> IF c \in Players THEN r_in.lines[c] ELSE <<>>]
    /\ r_games = IF r_in.match
                 THEN [g \in 1..r_in.threads |-> NewGame(r_in.order[1], r_in.order[2])]
                 ELSE <<>>
    /\ r_hist = [taken |-> <<>>, joined |-> -1, during |-> FALSE]

InDisconnected(u) == r_disconnected[u].game_state # "none"

\* list.remove: the first occurrence is taken out
RECURSIVE Remove(_, _)
Remove(list, x) ==
    IF list = <<>> THEN <<>>
    ELSE IF Head(list) = x THEN Tail(list)
    ELSE << Head(list) >> \o Remove(Tail(list), x)

InList(list, x) == \E i \in 1..Len(list) : list[i] = x

\* disconnected[name] = ...: a new key goes to the end of the dict, a key
\* that is there keeps its place.
DictSet(order, u) == IF InList(order, u) THEN order ELSE Append(order, u)

\* players_lock is held by a game_session thread from line 133 to the end
\* of its finally block.
PlayersLockFree ==
    \A h \in 1..Len(r_games) : r_games[h].pc \notin {"lock", "count", "promote"}

\* sessions_lock is held by a game_session thread from line 140 to the end
\* of the count.
SessionsLockFree ==
    \A h \in 1..Len(r_games) : r_games[h].pc # "count"

\* Lines 227-231 and 245-250: with exactly two entries on active_players a
\* match thread is started for them.
StartIfTwo(active, games) ==
    IF Len(active) = 2 THEN Append(games, NewGame(active[1], active[2])) ELSE games

\* What a client does first on its connection.
JoinFrames ==
    { [kind |-> "frame", text |-> "USER alice"],
      [kind |-> "frame", text |-> "FIRE A1"],
      [kind |-> "eof", text |-> ""] }

\* main, lines 265-268, and handle_client: the connection is accepted and
\* the first line read with session.recv. None.startswith raises and line
\* 257 closes the connection; a line that is not a USER line closes it at
\* line 200. After a USER line: under a username with a snapshot inside the
\* grace window the connection goes onto active_players (line 218 looks up
\* entry["conn"], a key the snapshot does not have, and closes nothing) and
\* may start a match; a snapshot that is older is deleted, and the
\* connection becomes a player or a spectator and is sent its role; the
\* exception of that send closes the connection at line 257, after the
\* lists were changed.
Join(c, first) ==
    /\ c \in NewConns
    /\ first \in JoinFrames
    /\ r_conn[c].sock = "none"
    /\ \A d \in NewConns : d < c => r_conn[d].sock # "none"
    /\ (recv(first, 1, 0).none \/ ~IsUserLine(recv(first, 1, 0).line))
          \/ (SessionsLockFree /\ PlayersLockFree)
    /\ LET got == recv(first, 1, 0)
           shuts == [NoConn EXCEPT !.sock = "shut", !.first = first.text, !.at = r_now]
       IN  IF got.none \/ ~IsUserLine(got.line)
           THEN /\ r_conn' = [r_conn EXCEPT ![c] =
                                 [shuts EXCEPT !.how = IF got.none THEN "none" ELSE "line"]]
                /\ UNCHANGED <<r_active, r_spectators, r_player_sessions,
                               r_disconnected, r_order, r_games>>
           ELSE LET u == UsernameOf[got.line]
                    entry == r_disconnected[u]
                    error == SendError("open")
                    sock == IF error = "none" THEN "open" ELSE "shut"
                IN  IF InDisconnected(u) /\ r_now - entry.disconnect_time <= GRACE
                    THEN /\ r_player_sessions' = [r_player_sessions EXCEPT ![u] = c]
                         /\ r_active' = Append(r_active, c)
                         /\ r_games' = StartIfTwo(r_active', r_games)
                         /\ r_conn' = [r_conn EXCEPT ![c] =
                                          [sock |-> "open", user |-> u, first |-> first.text, at |-> r_now,
                                           how |-> "reconnect",
                                           met |-> entry.disconnect_time]]
                         /\ UNCHANGED <<r_spectators, r_disconnected, r_order>>
                    ELSE /\ r_disconnected' = [r_disconnected EXCEPT ![u] = NoSnapshot]
                         /\ r_order' = Remove(r_order, u)
                         /\ r_player_sessions' = [r_player_sessions EXCEPT ![u] = c]
                         /\ r_conn' = [r_conn EXCEPT ![c] =
                                          [sock |-> sock, user |-> u, first |-> first.text, at |-> r_now,
                                           how |-> IF InDisconnected(u) THEN "expired" ELSE "new",
                                           met |-> IF InDisconnected(u)
                                                   THEN entry.disconnect_time ELSE -1]]
                         /\ IF Len(r_active) < 2
                            THEN /\ r_active' = Append(r_active, c)
                                 /\ r_games' = IF error = "none"
                                               THEN StartIfTwo(r_active', r_games)
                                               ELSE r_games
                                 /\ UNCHANGED r_spectators
                            ELSE /\ r_spectators' = Append(r_spectators, c)
                                 /\ UNCHANGED <<r_active, r_games>>
    /\ r_hist' = [r_hist EXCEPT !.joined = Len(r_hist.taken), !.during = ~PlayersLockFree]
    /\ UNCHANGED <<regOthers, r_in, r_now, r_queue>>

\* The connections whose clients may go away: those of the first player
\* and of the first spectator.
DropConns == {1, 3}

\* The client of a known connection goes away.
Drop(c) ==
    /\ c \in DropConns
    /\ r_conn[c].sock = "open"
    /\ \A d \in KnownConns : r_conn[d].sock = "open"
    /\ r_conn' = [r_conn EXCEPT ![c].sock = "closed"]
    /\ UNCHANGED <<regOthers, r_in, r_now, r_active, r_spectators, r_player_sessions,
                   r_disconnected, r_order, r_queue, r_games, r_hist>>

\* Time passes.
Tick(d) ==
    /\ d \in TickSteps
    /\ r_now + d <= MaxClock
    /\ r_now' = r_now + d
    /\ UNCHANGED <<regOthers, r_in, r_conn, r_active, r_spectators, r_player_sessions,
                   r_disconnected, r_order, r_queue, r_games, r_hist>>

SetGame(g, G) == [r_games EXCEPT ![g] = G]

\* The usernames bound to a connection in player_sessions, lines 56-61.
NamesOf(c) == { u \in Usernames : r_player_sessions[u] = c }

\* game_session, lines 55-78, under sessions_lock: the usernames of the two
\* connections are looked up ([0] of an empty list raises IndexError and
\* the thread goes to its finally block); the boards are new, or those of
\* the usernames' snapshots, with the current_player of the second
\* username's snapshot before that of the first; the snapshots are deleted.
GameBegin(g) ==
    /\ g \in 1..Len(r_games)
    /\ r_games[g].pc = "begin"
    /\ SessionsLockFree
    /\ LET G == r_games[g]
       IN  IF NamesOf(G.p1) = {} \/ NamesOf(G.p2) = {}
           THEN /\ r_games' = SetGame(g, [G EXCEPT !.pc = "cleanup", !.raised = "IndexError"])
                /\ UNCHANGED <<r_disconnected, r_order>>
           ELSE LET p1_name == CHOOSE u \in NamesOf(G.p1) : TRUE
                    p2_name == CHOOSE u \in NamesOf(G.p2) : TRUE
                    in1 == InDisconnected(p1_name)
                    in2 == InDisconnected(p2_name)
                IN  /\ r_games' = SetGame(g,
                          [G EXCEPT !.pc = "run", !.p1_name = p1_name, !.p2_name = p2_name,
                             !.board1 = IF in1 THEN r_disconnected[p1_name].board
                                        ELSE Board(BOARD_SIZE),
                             !.board2 = IF in2 THEN r_disconnected[p2_name].board
                                        ELSE Board(BOARD_SIZE),
                             !.init_current_player =
                                 IF in2 THEN r_disconnected[p2_name].current_player
                                 ELSE IF in1 THEN r_disconnected[p1_name].current_player
                                 ELSE 1])
                    /\ r_disconnected' =
                          [u \in Usernames |->
                              IF u \in {p1_name, p2_name} THEN NoSnapshot
                              ELSE r_disconnected[u]]
                    /\ r_order' = Remove(Remove(r_order, p1_name), p2_name)
    /\ UNCHANGED <<regOthers, r_in, r_now, r_conn, r_active, r_spectators,
                   r_player_sessions, r_queue, r_hist>>

\* response.strip().upper() == "Y" for the lines of AnswerTexts
IsYes(line) == line = "Y"

\* game_session, lines 80-129: run_two_player_game is called; a send of
\* its greetings that raises makes it return its arguments at once
\* (battleship.py lines 606-607). Then the play-again prompt is sent to
\* both players. An exception of these sends that is a ConnectionResetError
\* or BrokenPipeError stores a snapshot under both usernames; another one
\* leaves the loop through the finally block. After the prompts the two
\* answers are taken from the buffers: with two "Y" the boards are new and
\* the loop goes round, otherwise it ends.
GameRun(g) ==
    /\ g \in 1..Len(r_games)
    /\ r_games[g].pc = "run"
    /\ LET G == r_games[g]
           e1 == SendError(r_conn[G.p1].sock)
           e2 == SendError(r_conn[G.p2].sock)
           error == IF e1 # "none" THEN e1 ELSE e2
           returned == [G EXCEPT !.played = @ \/ error = "none",
                                 !.current_player = G.init_current_player]
           q1 == r_queue[G.p1]
           q2 == r_queue[G.p2]
       IN  IF error \in ConnectionErrors
           THEN /\ SessionsLockFree
                /\ r_disconnected' =
                      [u \in Usernames |->
                          IF u = G.p1_name
                          THEN Snapshot(r_player_sessions[u], G.board1, G.board2, r_now,
                                        returned.current_player)
                          ELSE IF u = G.p2_name
                          THEN Snapshot(r_player_sessions[u], G.board2, G.board1, r_now,
                                        returned.current_player)
                          ELSE r_disconnected[u]]
                /\ r_order' = DictSet(DictSet(r_order, G.p1_name), G.p2_name)
                /\ r_games' = SetGame(g, [returned EXCEPT !.pc = "cleanup", !.snapped = TRUE])
                /\ UNCHANGED r_queue
           ELSE IF error # "none"
           THEN /\ r_games' = SetGame(g, [returned EXCEPT !.pc = "cleanup", !.raised = error])
                /\ UNCHANGED <<r_disconnected, r_order, r_queue>>
           ELSE /\ r_queue' = [r_queue EXCEPT
                                 ![G.p1] = IF q1 = <<>> THEN q1 ELSE Tail(q1),
                                 ![G.p2] = IF q1 = <<>> \/ q2 = <<>> THEN q2 ELSE Tail(q2)]
                /\ r_games' = SetGame(g,
                      IF q1 # <<>> /\ q2 # <<>> /\ IsYes(Head(q1)) /\ IsYes(Head(q2))
                      THEN [returned EXCEPT !.board1 = Board(BOARD_SIZE),
                                            !.board2 = Board(BOARD_SIZE),
                                            !.round = @ + 1]
                      ELSE [returned EXCEPT !.pc = "cleanup"])
                /\ UNCHANGED <<r_disconnected, r_order>>
    /\ UNCHANGED <<regOthers, r_in, r_now, r_conn, r_active, r_spectators,
                   r_player_sessions, r_hist>>

\* Lines 135-138: both connections are taken off active_players; the first
\* remove that fails ends the attempt.
RemovePair(active, p1, p2) ==
    IF ~InList(active, p1) THEN active ELSE Remove(Remove(active, p1), p2)

\* Line 145: time.time() - v["disconnect_time"] <= timeout for one snapshot,
\* with the clock as it is when the snapshot is tested.
InWindow(u, now) == now - r_disconnected[u].disconnect_time <= GRACE

\* A queue whose head is read and left in place.
PeekFirst(specs) == specs

\* spectators.pop(0), line 151: the queue without its head.
PopFirst(specs) == Tail(specs)

\* Lines 150-162: while a player slot is free and a spectator waits, the
\* head of the queue is taken off and sent PING; it is then appended to
\* active_players and sent its role. A ConnectionResetError or
\* BrokenPipeError of a send goes on with the next spectator; another
\* exception leaves the loop and the thread.
RECURSIVE PromoteFrom(_, _, _, _)
PromoteFrom(active, specs, new_players, taken) ==
    IF Len(active) < 2 /\ specs # <<>>
    THEN LET c == Head(specs)
             rest == PopFirst(specs)
             error == SendError(r_conn[c].sock)
         IN  IF error = "none"
             THEN PromoteFrom(Append(active, c), rest, Append(new_players, c),
                              Append(taken, c))
             ELSE IF error \in ConnectionErrors
             THEN PromoteFrom(active, rest, new_players, Append(taken, c))
             ELSE [active |-> active, specs |-> rest, new_players |-> new_players,
                   taken |-> Append(taken, c), error |-> error]
    ELSE [active |-> active, specs |-> specs, new_players |-> new_players,
          taken |-> taken, error |-> "none"]

\* game_session, lines 131-138: the finally block takes players_lock and
\* the pair leaves active_players; the thread then asks for sessions_lock.
Cleanup(g) ==
    /\ g \in 1..Len(r_games)
    /\ r_games[g].pc = "cleanup"
    /\ PlayersLockFree
    /\ r_active' = RemovePair(r_active, r_games[g].p1, r_games[g].p2)
    /\ r_games' = SetGame(g, [r_games[g] EXCEPT !.pc = "lock"])
    /\ UNCHANGED <<regOthers, r_in, r_now, r_conn, r_spectators, r_player_sessions,
                   r_disconnected, r_order, r_queue, r_hist>>

\* Lines 140-142: sessions_lock is taken and the generator over
\* disconnected.values() starts, the count at 0.
PendingBegin(g) ==
    /\ g \in 1..Len(r_games)
    /\ r_games[g].pc = "lock"
    /\ SessionsLockFree
    /\ r_games' = SetGame(g, [r_games[g] EXCEPT
                                 !.pc = IF r_order = <<>> THEN "promote" ELSE "count",
                                 !.pending = 0, !.todo = r_order])
    /\ UNCHANGED <<regOthers, r_in, r_now, r_conn, r_active, r_spectators,
                   r_player_sessions, r_disconnected, r_order, r_queue, r_hist>>

\* Lines 143-145, one round of the generator: the next snapshot is tested
\* against the clock read in this round; after the last one sessions_lock
\* is released.
PendingTest(g) ==
    /\ g \in 1..Len(r_games)
    /\ r_games[g].pc = "count"
    /\ LET G == r_games[g]
           u == Head(G.todo)
       IN  r_games' = SetGame(g, [G EXCEPT
                          !.pending = IF InWindow(u, r_now) THEN @ + 1 ELSE @,
                          !.todo = Tail(G.todo),
                          !.pc = IF Tail(G.todo) = <<>> THEN "promote" ELSE "count"])
    /\ UNCHANGED <<regOthers, r_in, r_now, r_conn, r_active, r_spectators,
                   r_player_sessions, r_disconnected, r_order, r_queue, r_hist>>

\* Lines 148-169, still under players_lock: with nothing pending the
\* spectators are promoted; two promoted spectators get a match thread.
Promote(g) ==
    /\ g \in 1..Len(r_games)
    /\ r_games[g].pc = "promote"
    /\ LET G == r_games[g]
           out == IF G.pending = 0
                  THEN PromoteFrom(r_active, r_spectators, <<>>, <<>>)
                  ELSE [active |-> r_active, specs |-> r_spectators, new_players |-> <<>>,
                        taken |-> <<>>, error |-> "none"]
           ended == SetGame(g, [G EXCEPT !.pc = "end",
                                         !.raised = IF out.error # "none" THEN out.error
                                                    ELSE @])
       IN  /\ r_active' = out.active
           /\ r_spectators' = out.specs
           /\ r_hist' = [r_hist EXCEPT !.taken = @ \o out.taken]
           /\ r_games' = IF out.error = "none" /\ Len(out.new_players) = 2
                         THEN Append(ended, NewGame(out.new_players[1], out.new_players[2]))
                         ELSE ended
    /\ UNCHANGED <<regOthers, r_in, r_now, r_conn, r_player_sessions, r_disconnected,
                   r_order, r_queue>>

RegNext ==
    \/ \E c \in NewConns, first \in JoinFrames : Join(c, first)
    \/ \E c \in DropConns : Drop(c)
    \/ \E d \in TickSteps : Tick(d)
    \/ \E g \in GameIds : GameBegin(g)
    \/ \E g \in GameIds : GameRun(g)
    \/ \E g \in GameIds : Cleanup(g)
    \/ \E g \in GameIds : PendingBegin(g)
    \/ \E g \in GameIds : PendingTest(g)
    \/ \E g \in GameIds : Promote(g)

\* ---- properties of the registry ----

\* The username of the USER line the client of connection c sent first, ""
\* when it sent none.
Claimed(c) ==
    IF r_conn[c].first \in DOMAIN UsernameOf THEN UsernameOf[r_conn[c].first] ELSE ""

\* handle_client has run for connection c.
Handled(c) == c \in NewConns /\ r_conn[c].sock # "none"

\* The connection is on one of the two lists.
Registered(c) == InList(r_active, c) \/ InList(r_spectators, c)

\* Every game_session thread has ended: only a new connection or the clock
\* can change the state from here.
AtRest == \A g \in 1..Len(r_games) : r_games[g].pc = "end"

\* The snapshot of username u is older than the grace window.
Expired(u) ==
    InDisconnected(u) /\ r_now - r_disconnected[u].disconnect_time > GRACE

\* The username whose move it was when the snapshots of alice and bob were
\* stored.
TurnHolder == KnownUser[r_in.holder]

\* C4 (as claimed): a connection that joins under a username whose snapshot
\* is inside the grace window becomes an active player, and the match of
\* alice and bob resumed from their snapshots gives each her or his board
\* and the first move to the username that held the turn.
C4_RejoinRestoresBoardsAndTurn ==
    /\ \A c \in NewConns :
          (Handled(c) /\ r_conn[c].first = "USER alice" /\ r_in.snap = "match"
             /\ ~r_in.match /\ r_conn[c].at <= GRACE)
          => InList(r_active, c)
    /\ \A g \in 1..Len(r_games) :
          LET G == r_games[g]
          IN  (r_in.match /\ r_in.snap = "match" /\ g = 1 /\ G.pc = "run")
              => /\ G.board1 = SnapBoard[G.p1_name]
                 /\ G.board2 = SnapBoard[G.p2_name]
                 /\ (IF G.init_current_player = 1 THEN G.p1_name ELSE G.p2_name) = TurnHolder

\* C5 (as claimed): a join under a username whose snapshot is older than
\* the grace window deletes the snapshot and makes the connection a player
\* or a spectator.
C5_ExpiredJoinStartsAfresh ==
    \A c \in NewConns :
        (Handled(c) /\ Claimed(c) = "alice" /\ r_in.snap = "match" /\ ~r_in.match
           /\ r_conn[c].at > GRACE)
        => /\ ~InDisconnected("alice")
           /\ Registered(c)

\* C16: active_players never holds more than two connections.
C16_AtMostTwoActive == Len(r_active) <= 2

\* A client has joined as alice while alice and bob, both with a snapshot
\* inside the grace window, are the two active players.
C16_Witness ==
    /\ r_in.match
    /\ r_in.snap = "match"
    /\ Len(r_active) = 2
    /\ r_games[1].pc = "begin"
    /\ \E c \in NewConns : Handled(c) /\ Claimed(c) = "alice" /\ r_conn[c].at <= GRACE

\* C17 (as claimed): whenever active_players holds two connections there
\* is a match thread for that pair, and a match thread gets as far as the
\* placement or the turn loop.
C17_TwoActiveHaveOrchestrator ==
    /\ Len(r_active) = 2 =>
          \E g \in 1..Len(r_games) :
              /\ r_games[g].p1 = r_active[1]
              /\ r_games[g].p2 = r_active[2]
              /\ r_games[g].pc # "end"
    /\ \A g \in 1..Len(r_games) :
          r_games[g].pc \in {"cleanup", "end"} => r_games[g].played

\* How often a teardown has taken connection c off the queue.
TimesTaken(c) ==
    Cardinality({ i \in 1..Len(r_hist.taken) : r_hist.taken[i] = c })

\* C18: whatever the order in which the teardowns of match threads and
\* the joins run, a spectator is taken off the queue for promotion by at
\* most one teardown and is then no longer in the queue, and no connection
\* is in spectators and in active_players at the same time.
C18_PromotedOnce ==
    \A c \in ConnIds :
        /\ TimesTaken(c) <= 1
        /\ TimesTaken(c) = 1 => ~InList(r_spectators, c)
        /\ ~(InList(r_spectators, c) /\ InList(r_active, c))

\* Two match threads have torn down with a join in between: the first
\* teardown took the first spectator off the queue, a client was handled
\* while the second teardown held players_lock, and the second teardown
\* took the second spectator.
C18_Witness ==
    /\ r_in.threads = 2
    /\ r_in.specs = <<3, 4>>
    /\ \A g \in 1..Len(r_games) : r_games[g].pc = "end"
    /\ r_hist.taken = <<3, 4>>
    /\ r_hist.joined = 1
    /\ r_hist.during
    /\ r_spectators = <<>>

\* C19: no two open registered connections claim the same username.
C19_OneLiveSessionPerUsername ==
    \A c, d \in ConnIds :
        (c # d /\ Registered(c) /\ Registered(d)
           /\ r_conn[c].sock = "open" /\ r_conn[d].sock = "open")
        => r_conn[c].user # r_conn[d].user

\* A client has joined as alice while alice's connection is open and on
\* active_players; the new connection was closed.
C19_Witness ==
    /\ InList(r_active, 1)
    /\ r_conn[1].sock = "open"
    /\ r_in.snap = "match"
    /\ \E c \in NewConns :
          /\ Handled(c)
          /\ Claimed(c) = "alice"
          /\ r_conn[c].at <= GRACE
          /\ r_conn[c].sock = "shut"

\* C20 (as claimed): after a join under a username that has a snapshot
\* inside the grace window, the connection of that snapshot is closed and
\* the new connection is an active player.
C20_RejoinClosesOldConnection ==
    \A c \in NewConns :
        (Handled(c) /\ Claimed(c) = "alice" /\ r_in.snap = "match" /\ ~r_in.match
           /\ r_conn[c].at <= GRACE)
        => /\ r_conn[1].sock # "open"
           /\ InList(r_active, c)
           /\ r_player_sessions["alice"] = c

\* C21 (as claimed): once the server is at rest, no snapshot older than the
\* grace window is left in disconnected.
C21_SnapshotEventuallyEvicted ==
    AtRest => \A u \in Usernames : ~Expired(u)

\* C22 (as claimed): the thread of a match has played a second match with
\* new boards when both players answered Y, and otherwise has played none
\* and has taken both connections off active_players.
C22_RematchIffBothYes ==
    \A g \in 1..Len(r_games) :
        LET G == r_games[g]
        IN  (r_in.match /\ g = 1 /\ G.pc = "end") =>
               IF \A p \in Players : r_in.lines[p] = <<"Y">>
               THEN G.round >= 1
               ELSE G.round = 0 /\ ~InList(r_active, G.p1) /\ ~InList(r_active, G.p2)

\* C23 (as claimed): after the teardown of a match with nothing pending
\* and two connected spectators waiting, the two are the active players in
\* the order they waited and have a match thread.
C23_PromotionIsFifo ==
    (r_in.match /\ r_games[1].pc = "end" /\ r_games[1].pending = 0
       /\ r_in.specs = <<3, 4>> /\ r_conn[3].sock = "open" /\ r_conn[4].sock = "open")
    => /\ r_active = <<3, 4>>
       /\ r_spectators = <<>>
       /\ \E g \in 1..Len(r_games) : r_games[g].p1 = 3 /\ r_games[g].p2 = 4

\* Spectators whose clients are connected wait while nobody is on
\* active_players and no snapshot is within its grace window.
Stranded ==
    /\ r_active = <<>>
    /\ \A u \in Usernames : InDisconnected(u) => ~InWindow(u, r_now)
    /\ \E c \in ConnIds : InList(r_spectators, c) /\ r_conn[c].sock = "open"

\* C32 (as claimed): spectators that wait when a match ends with a
\* reconnection pending are promoted once the slots are free and nothing
\* is pending any more: once the server is at rest after the match, no
\* connected spectator waits next to an empty active_players.
C32_SpectatorsNotStranded ==
    (r_in.match /\ AtRest /\ r_games[1].pending > 0) => ~Stranded

(***************************************************************************)
(*      PART 5.  The Board class on its own                                *)
(***************************************************************************)

\* Cells fire_at is called on between two resets.
MaxFires == 2

\* Calls of reset, place_ships_randomly, place_ships_manually and
\* do_place_ship in a run.
MaxLays == 2

\* The cells fired at: A1 and A2, where the Destroyer lies in one fleet,
\* C1 of the Carrier, and J10, water in both.
FireCells == { <<0, 0>>, <<0, 1>>, <<2, 0>>, <<9, 9>> }

\* What random.randint gives place_ships_randomly, draw by draw, as
\* (row, col, orientation): a fleet, and another one, clear of the first,
\* after a draw that does not fit the Carrier.
RandomDraws ==
    { LayoutAcross,
      << <<9, 9, 0>>, <<6, 0, 0>>, <<7, 0, 0>>, <<8, 0, 0>>, <<9, 0, 0>>, <<1, 2, 0>> >> }

\* parse_coordinate on the coordinates typed: strip and upper, a row letter
\* A-J and a column 1-10; K1 is off the board and raises ValueError.
CoordOf ==
    ("A1" :> <<0, 0>>) @@ ("C1" :> <<2, 0>>) @@ ("c1" :> <<2, 0>>) @@ ("D1" :> <<3, 0>>)
    @@ ("E1" :> <<4, 0>>) @@ ("F1" :> <<5, 0>>) @@ ("J9" :> <<9, 8>>)

\* Lines 143-149: the orientation typed, after strip and upper.
OrientationOf == ("H" :> 0) @@ ("h" :> 0) @@ ("V" :> 1)

Typed(coord_str, orientation_str) ==
    [coord_str |-> coord_str, orientation_str |-> orientation_str]

\* What the user types at the prompts of place_ships_manually, round by
\* round: a coordinate off the board, an orientation that is none, a
\* Carrier that does not fit, and then a fleet; and two rounds after which
\* the input ends.
ManualAnswers ==
    { << Typed("K1", "H"), Typed("C1", "x"), Typed("J9", "H"), Typed("c1", "h"),
         Typed("D1", "H"), Typed("E1", "H"), Typed("F1", "H"), Typed("A1", "V") >>,
      << Typed("C1", "H"), Typed("D1", "H") >> }

\* Lines 136-149: the answers of a round as (row, col, orientation), or
\* <<>> when the loop goes round with an error message.
Parsed(answer) ==
    IF answer.coord_str \notin DOMAIN CoordOf
       \/ answer.orientation_str \notin DOMAIN OrientationOf
    THEN <<>>
    ELSE << CoordOf[answer.coord_str][1], CoordOf[answer.coord_str][2],
            OrientationOf[answer.orientation_str] >>

\* The arguments of the calls of do_place_ship on its own: two cells from
\* A1 across and from J9 across.
PlaceArgs == { <<0, 0, 2, 0>>, <<9, 8, 2, 0>> }

\* No placing method is under way; else the method, the place in SHIPS
\* its for loop is at, and the draws or answers still to come.
NoCall == [method |-> "none", ship |-> 0, todo |-> <<>>]

NoFire == [cell |-> <<>>, result |-> "None", sunk |-> "None", again |-> FALSE,
           before |-> <<>>, after |-> <<>>]

FireIdle ==
    /\ f_board = <<>>
    /\ f_fired = {}
    /\ f_call = NoCall
    /\ f_lays = 0
    /\ f_last = NoFire

\* Board(BOARD_SIZE)
FireInit ==
    /\ f_board = Board(BOARD_SIZE)
    /\ f_fired = {}
    /\ f_call = NoCall
    /\ f_lays = 0
    /\ f_last = NoFire

\* board.fire_at(row, col), between any two steps of a placing method.
Fire(cell) ==
    LET f == fire_at(f_board, cell[1], cell[2])
    IN  /\ f_board # <<>>
        /\ Cardinality(f_fired) < MaxFires \/ cell \in f_fired
        /\ f_board' = f.board
        /\ f_fired' = f_fired \cup {cell}
        /\ f_last' = [cell |-> cell, result |-> f.result, sunk |-> f.sunk,
                      again |-> cell \in f_fired, before |-> f_board,
                      after |-> f.board]
        /\ UNCHANGED <<fireOthers, f_call, f_lays>>

\* board.reset(), lines 90-94: both grids and placed_ships are built anew,
\* as __init__ builds them.
Reset ==
    /\ f_board # <<>>
    /\ f_lays < MaxLays
    /\ f_lays' = f_lays + 1
    /\ f_board' = Board(f_board.size)
    /\ f_fired' = {}
    /\ f_last' = NoFire
    /\ UNCHANGED <<fireOthers, f_call>>

\* A placing method is called: its for loop starts with the first ship.
Placing(method, todo) ==
    /\ f_board # <<>>
    /\ f_call = NoCall
    /\ f_lays < MaxLays
    /\ f_lays' = f_lays + 1
    /\ f_call' = [method |-> method, ship |-> 1, todo |-> todo]
    /\ f_last' = NoFire
    /\ UNCHANGED <<fireOthers, f_board, f_fired>>

\* One try of a placing method for the ship its loop is at, lines 110-116
\* and 152-157: a position can_place_ship accepts gets the ship, which goes
\* onto placed_ships, and the loop moves to the next ship or the method
\* returns; another position leaves the board as it is.
Try(position) ==
    LET i == f_call.ship
        fits == /\ position # <<>>
                /\ can_place_ship(f_board, position[1], position[2], SHIPS[i].size,
                                  position[3])
    IN  /\ f_board' = IF fits
                      THEN PlaceShip(f_board, SHIPS[i], position[1], position[2],
                                     position[3])
                      ELSE f_board
        /\ f_call' = IF fits /\ i = Len(SHIPS) THEN NoCall
                     ELSE [f_call EXCEPT !.ship = IF fits THEN i + 1 ELSE i,
                                         !.todo = Tail(f_call.todo)]
        /\ f_last' = NoFire
        /\ UNCHANGED <<fireOthers, f_fired, f_lays>>

\* board.place_ships_randomly() is called, line 96.
PlaceRandomly(draws) ==
    /\ draws \in RandomDraws
    /\ Placing("randomly", draws)

\* place_ships_randomly, one round of the while loop of lines 105-116 with
\* the next draw.
RandomlyTry ==
    /\ f_call.method = "randomly"
    /\ f_call.todo # <<>>
    /\ Try(Head(f_call.todo))

\* board.place_ships_manually() is called, line 119.
PlaceManually(answers) ==
    /\ answers \in ManualAnswers
    /\ Placing("manually", answers)

\* place_ships_manually, one round of the while loop of lines 126-163: the
\* method waits at its two prompts (lines 129, 131) and goes on with what
\* was typed.
ManuallyAsk ==
    /\ f_call.method = "manually"
    /\ f_call.todo # <<>>
    /\ Try(Parsed(Head(f_call.todo)))

\* place_ships_manually at a prompt when the input has ended: input()
\* raises EOFError, which leaves the method; the ships placed stay.
ManuallyEnds ==
    /\ f_call.method = "manually"
    /\ f_call.todo = <<>>
    /\ f_call' = NoCall
    /\ f_last' = NoFire
    /\ UNCHANGED <<fireOthers, f_board, f_fired, f_lays>>

\* board.do_place_ship(row, col, ship_size, orientation), lines 192-205,
\* called on its own: the cells are marked 'S' and placed_ships is left
\* alone. Every call in the source follows a can_place_ship that accepted
\* the position (lines 110, 152, 556), and the arguments are those it
\* accepts.
DoPlaceShip(a) ==
    /\ f_board # <<>>
    /\ a \in PlaceArgs
    /\ can_place_ship(f_board, a[1], a[2], a[3], a[4])
    /\ f_lays < MaxLays
    /\ f_lays' = f_lays + 1
    /\ f_board' = do_place_ship(f_board, a[1], a[2], a[3], a[4])
    /\ f_last' = NoFire
    /\ UNCHANGED <<fireOthers, f_fired, f_call>>

FireNext ==
    \/ \E cell \in FireCells : Fire(cell)
    \/ Reset
    \/ \E draws \in RandomDraws : PlaceRandomly(draws)
    \/ RandomlyTry
    \/ \E answers \in ManualAnswers : PlaceManually(answers)
    \/ ManuallyAsk
    \/ ManuallyEnds
    \/ \E a \in PlaceArgs : DoPlaceShip(a)

\* C34: for every board, as __init__ or reset has built it and the placing
\* methods have filled it, and every cell: the first fire_at on the cell
\* returns hit or miss and leaves the cell revealed in both grids; every
\* later fire_at on that cell returns already_shot and leaves the board,
\* both grids and every ship's remaining positions, as it was.
C34_SecondFireIsAlreadyShot ==
    f_last.cell # <<>> =>
        IF f_last.again
        THEN /\ f_last.result = "already_shot"
             /\ f_last.sunk = "None"
             /\ f_last.after = f_last.before
        ELSE /\ f_last.result \in {"hit", "miss"}
             /\ f_last.result = "hit" <=> f_last.before.hidden_grid[f_last.cell] = "S"
             /\ f_last.after.hidden_grid[f_last.cell] \in {"X", "o"}
             /\ f_last.after.display_grid[f_last.cell]
                   = f_last.after.hidden_grid[f_last.cell]

\* A fleet was placed, the Destroyer went down with two shots, and A1 has
\* just been fired at once more.
C34_Witness ==
    /\ f_last.again
    /\ f_last.cell = <<0, 0>>
    /\ f_last.result = "already_shot"
    /\ f_lays > 0
    /\ \E i \in 1..Len(f_last.after.placed_ships) :
          /\ f_last.after.placed_ships[i].name = "Destroyer"
          /\ f_last.after.placed_ships[i].positions = {}

(***************************************************************************)
(*      PART 6.  players_lock and sessions_lock                            *)
(***************************************************************************)

\* The threads: the game_session of a match, the handle_client thread of a
\* connecting client, and a thread that calls broadcast_message.
LockThreads == {"game", "join", "chat"}

\* A thread that has not started.
NewThread == [pc |-> "start", todo |-> <<>>]

LockIdle ==
    /\ k_in = <<>>
    /\ k_thr = <<>>
    /\ k_players_lock = "none"
    /\ k_sessions_lock = "none"

\* The match's thread has been started, a client has connected and sent
\* its first frame, under a username with or without a snapshot inside the
\* grace window, and broadcast_message is called with a chat message.
LockInit ==
    /\ k_in \in [first : JoinFrames, snap : BOOLEAN]
    /\ k_thr = [t \in LockThreads |-> NewThread]
    /\ k_players_lock = "none"
    /\ k_sessions_lock = "none"

Acq(lock) == [op |-> "acquire", lock |-> lock]

Rel(lock) == [op |-> "release", lock |-> lock]

\* with lock: ... with nothing locked inside
Section(lock) == << Acq(lock), Rel(lock) >>

\* The locks game_session takes: sessions_lock for the lookup of lines
\* 55-78; sessions_lock for the snapshot of lines 119-128 when the send of
\* line 92 raises ConnectionResetError or BrokenPipeError; in the finally
\* block players_lock (line 133) and inside it sessions_lock (lines
\* 140-146).
GameLocks ==
    Section("sessions_lock")
    \o (IF SendError("open") \in ConnectionErrors THEN Section("sessions_lock") ELSE <<>>)
    \o << Acq("players_lock"), Acq("sessions_lock"), Rel("sessions_lock"),
          Rel("players_lock") >>

\* The locks handle_client takes: none when the first line is None or no
\* USER line; after a USER line sessions_lock (line 210) and, for a
\* username with a snapshot inside the grace window, players_lock inside
\* it (line 225), otherwise players_lock after it (line 239).
JoinLocks(first, snap) ==
    LET got == recv(first, 1, 0)
    IN  IF got.none \/ ~IsUserLine(got.line) THEN <<>>
        ELSE IF snap
        THEN << Acq("sessions_lock"), Acq("players_lock"), Rel("players_lock"),
                Rel("sessions_lock") >>
        ELSE Section("sessions_lock") \o Section("players_lock")

\* The locks broadcast_message takes, lines 36-43: sessions_lock around the
\* loop over the sessions; what a send raises is caught inside the loop
\* (except Exception, line 42), so the with block runs to its end.
BroadcastLocks == Section("sessions_lock")

LocksOf(t) ==
    CASE t = "game" -> GameLocks
      [] t = "join" -> JoinLocks(k_in.first, k_in.snap)
      [] t = "chat" -> BroadcastLocks

Holder(lock) == IF lock = "players_lock" THEN k_players_lock ELSE k_sessions_lock

\* The thread with the operations it has ahead; at its end when none is left.
After(t, todo) == [pc |-> IF todo = <<>> THEN "done" ELSE "run", todo |-> todo]

\* The thread runs up to its first lock, or to its end when it takes none.
ThreadStart(t) ==
    /\ k_thr[t].pc = "start"
    /\ k_thr' = [k_thr EXCEPT ![t] = After(t, LocksOf(t))]
    /\ UNCHANGED <<lockOthers, k_in, k_players_lock, k_sessions_lock>>

\* with lock: the thread gets the lock when no thread holds it.
Acquire(t) ==
    /\ k_thr[t].pc = "run"
    /\ Head(k_thr[t].todo).op = "acquire"
    /\ LET lock == Head(k_thr[t].todo).lock
       IN  /\ Holder(lock) = "none"
           /\ IF lock = "players_lock"
              THEN k_players_lock' = t /\ UNCHANGED k_sessions_lock
              ELSE k_sessions_lock' = t /\ UNCHANGED k_players_lock
    /\ k_thr' = [k_thr EXCEPT ![t] = After(t, Tail(k_thr[t].todo))]
    /\ UNCHANGED <<lockOthers, k_in>>

\* The end of a with block, also when an exception leaves it: no thread
\* holds the lock.
Release(t) ==
    /\ k_thr[t].pc = "run"
    /\ Head(k_thr[t].todo).op = "release"
    /\ LET lock == Head(k_thr[t].todo).lock
       IN  IF lock = "players_lock"
           THEN k_players_lock' = "none" /\ UNCHANGED k_sessions_lock
           ELSE k_sessions_lock' = "none" /\ UNCHANGED k_players_lock
    /\ k_thr' = [k_thr EXCEPT ![t] = After(t, Tail(k_thr[t].todo))]
    /\ UNCHANGED <<lockOthers, k_in>>

LockNext ==
    \/ \E t \in LockThreads : ThreadStart(t)
    \/ \E t \in LockThreads : Acquire(t)
    \/ \E t \in LockThreads : Release(t)

\* A thread that can take its next step takes it in the end: no thread is
\* kept off the processor for ever. threading.Lock promises no order among
\* the threads waiting for it, and none is assumed.
LockFair ==
    \A t \in LockThreads : WF_vars(ThreadStart(t) \/ Acquire(t) \/ Release(t))

\* The lock the thread waits for at its place, "none" when it is not about
\* to acquire one.
Wants(t) ==
    IF k_thr[t].pc = "run" /\ Head(k_thr[t].todo).op = "acquire"
    THEN Head(k_thr[t].todo).lock
    ELSE "none"

CodecIdle ==
    /\ c_pc = "idle"
    /\ c_in = [seq_num |-> 0, ptype |-> 0, data |-> <<>>]
    /\ c_wire = <<>>
    /\ c_out = [error |-> "none"]

\* The codec driven over its inputs.
InitCodec == CodecInit /\ SessIdle /\ TurnIdle /\ RegIdle /\ FireIdle /\ LockIdle

SpecCodec == InitCodec /\ [][CodecNext]_vars

\* Two connections: the handshake, the reader, and sends of two threads.
InitSession == SessInit /\ CodecIdle /\ TurnIdle /\ RegIdle /\ FireIdle /\ LockIdle

SpecSession == InitSession /\ [][SessNext]_vars

\* A function of the match called with boards, a turn and lines on the buffers.
InitTurn == TurnInit /\ CodecIdle /\ SessIdle /\ RegIdle /\ FireIdle /\ LockIdle

SpecTurn == InitTurn /\ [][TurnNext]_vars

\* handle_client and game_session on the globals of server.py.
InitRegistry == RegInit /\ CodecIdle /\ SessIdle /\ TurnIdle /\ FireIdle /\ LockIdle

SpecRegistry == InitRegistry /\ [][RegNext]_vars

\* Calls of the methods of a Board, one after the other.
InitFire == FireInit /\ CodecIdle /\ SessIdle /\ TurnIdle /\ RegIdle /\ LockIdle

SpecFire == InitFire /\ [][FireNext]_vars

\* A match's thread next to a join and a call of broadcast_message.
InitLock == LockInit /\ CodecIdle /\ SessIdle /\ TurnIdle /\ RegIdle /\ FireIdle

SpecLock == InitLock /\ [][LockNext]_vars /\ LockFair

=============================================================================
